---- MODULE Spec2Model ----
(***************************************************************************)
(* A model of the Nemesis scripts of watchman-java:                        *)
(*   - scripts/nemesis/coverage_tracker.py  (CoverageTracker)              *)
(*   - scripts/nemesis/result_analyzer.py   (ResultAnalyzer)               *)
(*   - scripts/nemesis/query_executor.py    (QueryExecutor)                *)
(*   - scripts/nemesis/external_provider_adapter.py (OFACAPIAdapter)       *)
(* Each component has a specification of its own (SpecCov, SpecCmp,        *)
(* SpecTri, SpecApi); the variables of the other components are held at    *)
(* their idle values.                                                      *)
(*                                                                         *)
(* Conventions.  Match scores are exact decimals, counted in thousandths   *)
(* (0.95 is 950).  A Python None of an optional field is the value the     *)
(* field's None definition names.  Divergence.description, a formatted     *)
(* message, is not modelled.                                               *)
(***************************************************************************)
EXTENDS Integers, Sequences, FiniteSets

VARIABLES
    \* ---- CoverageTracker
    total_entities,   \* self.total_entities
    state,            \* self.state
    file,             \* the state file on disk
    clock,            \* datetime.now(), a counter
    recorded,         \* history: ids given to record_test since construction
    loaded,           \* history: ids the constructor found in the state file
    lastOp,           \* history: the last tracker operation
    calls,            \* history: per id, the record_test calls since construction
    saved,            \* history: self.state of the tracker that last saved
    all_entities,     \* argument of the last get_prioritized_entities
    count,            \* argument of the last get_prioritized_entities
    prioritized,      \* the list get_prioritized_entities returned
    \* ---- ResultAnalyzer
    java_results,     \* argument of compare / compare_three_way
    go_results,       \* argument of compare / compare_three_way
    external_results, \* argument of compare_three_way
    divergences,      \* the list returned
    cmpPc,            \* "input" before the call, "done" after it
    compare_env,      \* COMPARE_IMPLEMENTATIONS and COMPARE_EXTERNAL of the run
    all_divergences,  \* the list all_divergences of run_nemesis.main
    \* ---- QueryExecutor
    go_url,           \* self.go_url is set
    external_adapter, \* self.external_adapter is set
    args,             \* the arguments of the running execute()
    result,           \* the QueryResult execute() fills in
    apiPc,            \* where execute() is
    callPc,           \* where the running _call_api is
    attempt,          \* the loop variable of _call_api
    log,              \* history: what the running _call_api did, in order
    ret,              \* the tuple the last _call_api returned
    \* ---- QueryExecutor.execute_batch
    test_cases,       \* the queries of the test cases given
    batch_args,       \* compare_go and compare_external of the call
    batch_i,          \* how many test cases the loop has gone through
    batch_results,    \* the list results
    issued,           \* history: the queries given to execute, in order
    batchPc,          \* where execute_batch is
    \* ---- WatchmanLoadTester (aws_load_test.py)
    ldPc,             \* where the calling thread is
    concurrent_users, \* max_workers of the pool
    num_requests,     \* argument of test_batch_endpoint
    futures,          \* the list futures of the calling thread
    fut,              \* the pool: status and result of every request
    pending,          \* the futures as_completed has still to yield
    query_index,      \* requests submitted (batch: the loop variable i)
    latencies,        \* the list latencies, a latency named by its request
    successful,       \* counter
    failed,           \* counter
    errors,           \* the dict errors, 0 for an absent key
    total_requests,   \* TestResult.total_requests
    attempts,         \* history: what each HTTP attempt of a request ran into
    \* ---- run_nemesis.main
    runPc,            \* where main is
    run_cfg,          \* COMPARE_IMPLEMENTATIONS, COMPARE_EXTERNAL, OFAC_API_KEY
    entities,         \* the entities fetched (their number)
    run_cases,        \* test_cases, each by its source_entity_id
    run_log,          \* history: the steps of the coverage lifecycle taken
    output_file,      \* the report file of the run, on disk
    \* ---- run_repair_pipeline.py
    repPc,            \* where the script is
    rep_env,          \* which of ANTHROPIC_API_KEY, GITHUB_TOKEN are set
    divergence_count, \* divergences of the report read
    stopped_by,       \* history: the condition that stopped the pipeline
    exit_status,      \* the exit status of the process, NoExit while it runs
    reports_dir,      \* the newest artifact of each kind in the reports directory
    started,          \* history: the stages run_command was called for
    \* ---- run-nemesis.py and run-strategic-analyzer.py
    aiPc,             \* where main is
    ai_script,        \* which of the two scripts runs
    ai_response,      \* the text the AI answered
    create_issues,    \* CREATE_GITHUB_ISSUES
    report_written,   \* output_file was written
    raw_written,      \* the _raw.txt file was written
    parse_ret,        \* what parse_and_save_results returned
    issue_created,    \* the GitHub issue was created
    main_ret,         \* the exit status main gives, NoExit while it runs
    \* ---- IssueClassifier
    issue,            \* argument of classify
    classified,       \* the IssueClassification returned
    clsPc,            \* "input" before the call, "done" after it
    \* ---- FixApplicator
    fixPc,            \* where apply_fix is
    dry_run,          \* self.dry_run
    fix,              \* argument of apply_fix
    branch_name,      \* local of apply_fix, None until the branch stage is over
    change_i,         \* changes _apply_changes is through with
    gh_ops,           \* history: the mutating calls made on the repository
    fix_result        \* the dict apply_fix returned

covVars == <<total_entities, state, file, clock, recorded, loaded, lastOp,
             calls, saved, all_entities, count, prioritized>>
cmpVars == <<java_results, go_results, external_results, divergences, cmpPc,
             compare_env, all_divergences>>
apiVars == <<go_url, external_adapter, args, result, apiPc, callPc, attempt,
             log, ret>>
batVars == <<test_cases, batch_args, batch_i, batch_results, issued, batchPc>>
ldVars == <<ldPc, concurrent_users, num_requests, futures, fut, pending,
            query_index, latencies, successful, failed, errors,
            total_requests, attempts>>
runVars == <<runPc, run_cfg, entities, run_cases, run_log, output_file>>
repVars == <<repPc, rep_env, divergence_count, stopped_by, exit_status,
             reports_dir, started>>
aiVars == <<aiPc, ai_script, ai_response, create_issues, report_written,
            raw_written, parse_ret, issue_created, main_ret>>
clsVars == <<issue, classified, clsPc>>
fixVars == <<fixPc, dry_run, fix, branch_name, change_i, gh_ops, fix_result>>
vars == <<covVars, cmpVars, apiVars, batVars, ldVars, runVars, repVars,
          aiVars, clsVars, fixVars>>

\* What an operation of one component leaves alone: the other components
CovFrame == UNCHANGED <<cmpVars, apiVars, batVars, ldVars, runVars, repVars,
    aiVars, clsVars, fixVars>>
CmpFrame == UNCHANGED <<covVars, apiVars, batVars, ldVars, runVars, repVars,
    aiVars, clsVars, fixVars>>
ApiFrame == UNCHANGED <<covVars, cmpVars, batVars, ldVars, runVars, repVars,
    aiVars, clsVars, fixVars>>
BatFrame == UNCHANGED <<covVars, cmpVars, ldVars, runVars, repVars,
    aiVars, clsVars, fixVars>>
LdFrame == UNCHANGED <<covVars, cmpVars, apiVars, batVars, runVars, repVars,
    aiVars, clsVars, fixVars>>
RunFrame == UNCHANGED <<cmpVars, apiVars, batVars, ldVars, repVars,
    aiVars, clsVars, fixVars>>
RepFrame == UNCHANGED <<covVars, cmpVars, apiVars, batVars, ldVars, runVars,
    aiVars, clsVars, fixVars>>
AiFrame == UNCHANGED <<covVars, cmpVars, apiVars, batVars, ldVars, runVars,
    repVars, clsVars, fixVars>>
ClsFrame == UNCHANGED <<covVars, cmpVars, apiVars, batVars, ldVars, runVars,
    repVars, aiVars, fixVars>>
FixFrame == UNCHANGED <<covVars, cmpVars, apiVars, batVars, ldVars, runVars,
    repVars, aiVars, clsVars>>

(***************************************************************************)
(* Bounds of the model.                                                    *)
(***************************************************************************)
MaxClock == 4        \* calls of datetime.now() a behaviour may make
MaxLen == 2          \* longest result list given to compare
MaxLen3 == 1         \* longest result list given to compare_three_way
MaxRetriesBound == 3 \* largest max_retries given to execute
MaxBatch == 2        \* longest list of test cases given to execute_batch
MaxSubmit == 3       \* most requests a load test submits
MaxUsers == 2        \* largest concurrent_users
MaxCases == 2        \* most test cases a run generates
MaxDivergences == 2  \* most divergences in the report the pipeline reads
MaxCount == 3        \* largest count given to get_prioritized_entities
MaxRootCauses == 2   \* most root causes of an issue given to classify
MaxChanges == 3      \* most changes of a fix given to apply_fix

(***************************************************************************)
(* CoverageTracker                                                         *)
(***************************************************************************)
EntityIds == {"SDN-1", "SDN-2", "SDN-3"}
EntityNames == {"Entity A", "Entity B"}
Totals == {0, 2, 3}

\* None of last_updated / last_tested (coverage_tracker.py:43, :75)
NoTime == 0

\* The empty dict of entity_stats
EmptyStats == [k \in {} |-> NoTime]

\* The "new state" literal of _load_state.
NewState(total) ==
    [total_ofac_entities |-> total,
     entities_tested |-> 0,
     tested_entity_ids |-> <<>>,
     entity_stats |-> EmptyStats,
     last_updated |-> NoTime]

\* The state file does not exist.
NoFile == [kind |-> "absent", doc |-> NewState(0)]

\* What else the path of the state file can be: a file that open or json.load
\* fail on ("corrupt": no JSON text, a directory, an unreadable file), or a
\* path that stat fails on with an error other than ENOENT, ENOTDIR, EBADF
\* and ELOOP ("inaccessible": its directory cannot be searched, the name is
\* too long)
UnloadableKinds == {"absent", "corrupt", "inaccessible"}

\* self.state_file.exists() of _load_state, line 30.  Path.exists gives
\* False for a path that does not exist and hands on the other errors of
\* stat (pathlib up to Python 3.12); later versions give False for every
\* error
ExistsOutcomes(f) ==
    CASE f.kind = "absent" -> {"false"}
      [] f.kind = "inaccessible" -> {"raises", "false"}
      [] OTHER -> {"true"}

InSeq(x, s) == \E i \in 1..Len(s) : s[i] = x

SeqToSet(s) == {s[i] : i \in 1..Len(s)}

\* A faulty variant of LoadState: the state file is not read.
LoadStateNew(f, total) == NewState(total)

\* CoverageTracker._load_state.  The document holds strings, integers, None,
\* a list of strings and dicts keyed by strings: json.load gives back the
\* value json.dump was given.
LoadState(f, total) ==
    IF f.kind = "json" THEN f.doc ELSE NewState(total)

\* A faulty variant of AppendIfAbsent: the membership test is dropped.
AppendAlways(ids, entity_id) == Append(ids, entity_id)

\* record_test, lines 66-67
AppendIfAbsent(ids, entity_id) ==
    IF InSeq(entity_id, ids) THEN ids ELSE Append(ids, entity_id)

\* A faulty variant of UpdateStats: every call writes the whole entry anew.
UpdateStatsAnew(stats, entity_id, entity_name, now) ==
    [k \in DOMAIN stats \cup {entity_id} |->
        IF k = entity_id
        THEN [entity_name |-> entity_name,
              test_count |-> 1,
              first_tested |-> now,
              last_tested |-> now]
        ELSE stats[k]]

\* record_test, lines 70-79: entity_stats after the call
UpdateStats(stats, entity_id, entity_name, now) ==
    LET created == IF entity_id \in DOMAIN stats
                   THEN stats
                   ELSE [k \in DOMAIN stats \cup {entity_id} |->
                           IF k = entity_id
                           THEN [entity_name |-> entity_name,
                                 test_count |-> 0,
                                 first_tested |-> now,
                                 last_tested |-> NoTime]
                           ELSE stats[k]]
    IN [created EXCEPT ![entity_id] =
           [@ EXCEPT !.test_count = @ + 1, !.last_tested = now]]

\* CoverageTracker.record_test: self.state after the call
RecordTestState(st, entity_id, entity_name, now) ==
    [st EXCEPT !.tested_entity_ids = AppendIfAbsent(@, entity_id),
               !.entity_stats = UpdateStats(@, entity_id, entity_name, now)]

\* A faulty variant of SaveState: entities_tested is not recomputed.
SaveStateStale(st, now) == [st EXCEPT !.last_updated = now]

\* CoverageTracker.save, lines 48-49: self.state as dumped
SaveState(st, now) ==
    [st EXCEPT !.last_updated = now,
               !.entities_tested = Len(st.tested_entity_ids)]

\* CoverageTracker.coverage_percentage, the exact fraction <<num, den>>
\* of (len / total) * 100
CoveragePercentage(st, total) ==
    IF total = 0 THEN <<0, 1>>
    ELSE <<Len(st.tested_entity_ids) * 100, total>>

\* CoverageTracker.was_tested
WasTested(st, entity_id) == InSeq(entity_id, st.tested_entity_ids)

\* CoverageTracker.get_entity_stats: the dict of the id as a one-element
\* sequence, None as the empty one
GetEntityStats(st, entity_id) ==
    IF entity_id \in DOMAIN st.entity_stats
    THEN <<st.entity_stats[entity_id]>>
    ELSE <<>>

\* s[:n] of Python for n >= 0
Take(s, n) == SubSeq(s, 1, IF n < Len(s) THEN n ELSE Len(s))

\* The ways of reordering the positions 1..n
Orders(n) == {f \in [1..n -> 1..n] : \A i \in 1..n : \E j \in 1..n : f[j] = i}

\* The lists random.shuffle can leave in place of s
Shuffles(s) == {[i \in 1..Len(s) |-> s[f[i]]] : f \in Orders(Len(s))}

\* The default of stats.get("last_tested", "1970-01-01"): a timestamp
\* before every datetime.now()
Epoch == -1

\* get_prioritized_entities, lines 124-126: the sort key of a tested entity
LastTested(st, entity) ==
    IF entity.id \in DOMAIN st.entity_stats
    THEN st.entity_stats[entity.id].last_tested
    ELSE Epoch

\* A faulty variant of SortOldestFirst: the list is left in input order.
SortNot(st, tested) == tested

\* get_prioritized_entities, line 128: list.sort(key=last_tested), a
\* stable sort
SortOldestFirst(st, tested) ==
    LET n == Len(tested)
        f == CHOOSE g \in Orders(n) :
                 \A i, j \in 1..n : i < j =>
                     \/ LastTested(st, tested[g[i]]) < LastTested(st, tested[g[j]])
                     \/ /\ LastTested(st, tested[g[i]]) = LastTested(st, tested[g[j]])
                        /\ g[i] < g[j]
    IN [i \in 1..n |-> tested[f[i]]]

\* get_prioritized_entities, lines 108-109
Untested(st, all) == SelectSeq(all, LAMBDA e : ~WasTested(st, e.id))

Tested(st, all) == SelectSeq(all, LAMBDA e : WasTested(st, e.id))

\* CoverageTracker.get_prioritized_entities for count >= 0, given the list
\* random.shuffle left in untested
Prioritize(st, all, shuffled, n) ==
    LET first == IF Len(shuffled) > 0 THEN Take(shuffled, n) ELSE <<>>
        tested == Tested(st, all)
        filled == IF Len(first) < n /\ Len(tested) > 0
                  THEN first \o Take(SortOldestFirst(st, tested), n - Len(first))
                  ELSE first
    IN Take(filled, n)

\* The lists of entities with unique ids a caller passes
EntityLists ==
    {l \in UNION {[1..n -> [id : EntityIds]] : n \in 0..Cardinality(EntityIds)} :
        \A i, j \in 1..Len(l) : l[i].id = l[j].id => i = j}

\* No record_test call was made
NoCalls == [k \in {} |-> [test_count |-> 0, entity_name |-> "", first_tested |-> NoTime]]

\* What a record_test call adds to the calls made since construction
CountCall(c, entity_id, entity_name, now) ==
    IF entity_id \in DOMAIN c
    THEN [c EXCEPT ![entity_id].test_count = @ + 1]
    ELSE [k \in DOMAIN c \cup {entity_id} |->
            IF k = entity_id
            THEN [test_count |-> 1, entity_name |-> entity_name, first_tested |-> now]
            ELSE c[k]]

\* No get_prioritized_entities call is being looked at
NoQuery ==
    /\ all_entities = <<>>
    /\ count = 0
    /\ prioritized = <<>>

CovInit ==
    /\ total_entities \in Totals
    /\ file = NoFile
    /\ state = NewState(total_entities)
    /\ clock = 0
    /\ recorded = {}
    /\ loaded = {}
    /\ lastOp = "construct"
    /\ calls = NoCalls
    /\ saved = NewState(0)
    /\ NoQuery

CovIdle ==
    /\ total_entities = 0
    /\ file = NoFile
    /\ state = NewState(0)
    /\ clock = 0
    /\ recorded = {}
    /\ loaded = {}
    /\ lastOp = "construct"
    /\ calls = NoCalls
    /\ saved = NewState(0)
    /\ NoQuery

\* CoverageTracker.__init__ of a later run on the same state file
Construct(total) ==
    /\ total_entities' = total
    /\ \E exists \in ExistsOutcomes(file) :
           IF exists = "raises"
           THEN /\ state' = state
                /\ loaded' = {}
                /\ lastOp' = "construct_raised"
           ELSE /\ state' = LoadState(file, total)
                /\ loaded' = SeqToSet(state'.tested_entity_ids)
                /\ lastOp' = "construct"
    /\ recorded' = {}
    /\ calls' = NoCalls
    /\ all_entities' = <<>>
    /\ count' = 0
    /\ prioritized' = <<>>
    /\ UNCHANGED <<file, clock, saved>>
    /\ CovFrame

RecordTest(entity_id, entity_name) ==
    /\ lastOp # "construct_raised"
    /\ clock < MaxClock
    /\ clock' = clock + 1
    /\ state' = RecordTestState(state, entity_id, entity_name, clock')
    /\ recorded' = recorded \cup {entity_id}
    /\ lastOp' = "record_test"
    /\ calls' = CountCall(calls, entity_id, entity_name, clock')
    /\ all_entities' = <<>>
    /\ count' = 0
    /\ prioritized' = <<>>
    /\ UNCHANGED <<total_entities, file, loaded, saved>>
    /\ CovFrame

\* On a path that cannot be written (an inaccessible one, a directory) mkdir
\* or open raise and the file stays as it is: such a save is left out
Save ==
    /\ lastOp # "construct_raised"
    /\ file.kind \in {"absent", "json"}
    /\ clock < MaxClock
    /\ clock' = clock + 1
    /\ state' = SaveState(state, clock')
    /\ file' = [kind |-> "json", doc |-> state']
    /\ lastOp' = "save"
    /\ saved' = state'
    /\ all_entities' = <<>>
    /\ count' = 0
    /\ prioritized' = <<>>
    /\ UNCHANGED <<total_entities, recorded, loaded, calls>>
    /\ CovFrame

\* CoverageTracker.get_prioritized_entities.  The call leaves the tracker as
\* it was, so a call that follows another one is that call made earlier: the
\* calls of one tracker state are all explored from the step that produced it.
GetPrioritizedEntities(all, n) ==
    /\ lastOp \notin {"get_prioritized_entities", "construct_raised"}
    /\ all_entities' = all
    /\ count' = n
    /\ \E shuffled \in Shuffles(Untested(state, all)) :
           prioritized' = Prioritize(state, all, shuffled, n)
    /\ lastOp' = "get_prioritized_entities"
    /\ UNCHANGED <<total_entities, state, file, clock, recorded, loaded, calls, saved>>
    /\ CovFrame

\* Between two runs the state file is deleted, damaged or made inaccessible
\* from outside the tracker
Disturb(kind) ==
    /\ lastOp \in {"save", "construct_raised"}
    /\ file.kind # kind
    /\ file' = [kind |-> kind, doc |-> NewState(0)]
    /\ lastOp' = "disturbed"
    /\ UNCHANGED <<total_entities, state, clock, recorded, loaded, calls, saved,
                   all_entities, count, prioritized>>
    /\ CovFrame

CovNext ==
    \/ \E t \in Totals : Construct(t)
    \/ \E i \in EntityIds, n \in EntityNames : RecordTest(i, n)
    \/ Save

(***************************************************************************)
(* ResultAnalyzer                                                          *)
(* An entity id is a string, modelled as the sequence of its parts: a      *)
(* source prefix ("sdn-", ...) is one part, so "sdn-1" is <<"sdn-", "1">>  *)
(* and the empty string is << >>.  An entity is the record of its fields   *)
(* id, sourceID, uid and match; an absent field holds its None value.      *)
(***************************************************************************)
\* None, for an id and for an absent id field
NoneId == <<"None">>

\* None of Divergence.score_difference; an entity without "match"
NoScore == -1

\* Thresholds of the score difference, in thousandths
CriticalDiff == 100
ModerateDiff == 50
MinorDiff == 20
ThreeWayDiff == 100

\* The prefixes normalize_id removes
IdPrefixes == {"sdn-", "ofac-", "un-", "eu-"}

\* Python truthiness of an optional string
Truthy(x) == x # NoneId /\ x # <<>>

Abs(x) == IF x < 0 THEN 0 - x ELSE x

Max(a, b) == IF a >= b THEN a ELSE b

\* An entity as the Java API returns it (its id under "id")
JavaEntity(i, s) == [id |-> i, sourceID |-> NoneId, uid |-> NoneId, match |-> s]

\* An entity as the Go API returns it (its id under "sourceID")
GoEntity(i, s) == [id |-> NoneId, sourceID |-> i, uid |-> NoneId, match |-> s]

\* An entity that carries its id under "uid"
UidEntity(i, s) == [id |-> NoneId, sourceID |-> NoneId, uid |-> i, match |-> s]

\* ResultAnalyzer._get_entity_id
GetEntityId(entity) ==
    IF Truthy(entity.id) THEN entity.id
    ELSE IF Truthy(entity.sourceID) THEN entity.sourceID
    ELSE entity.uid

\* entity.get("match", 0); ResultAnalyzer._get_entity_score
GetEntityScore(entity) == IF entity.match = NoScore THEN 0 ELSE entity.match

\* The Divergence dataclass (description left out)
Divergence(type, severity, java_data, go_data, external_data, diff, pattern) ==
    [type |-> type, severity |-> severity, java_data |-> java_data,
     go_data |-> go_data, external_data |-> external_data,
     score_difference |-> diff, agreement_pattern |-> pattern]

\* compare, lines 79-97: one extra-result divergence per entry
ExtraPerEntry(results, type) ==
    [i \in 1..Len(results) |->
        IF type = "JAVA_EXTRA_RESULT"
        THEN Divergence(type, "moderate", <<results[i]>>, <<>>, <<>>,
                        NoScore, "None")
        ELSE Divergence(type, "moderate", <<>>, <<results[i]>>, <<>>,
                        NoScore, "None")]

\* A faulty variant of TopDivs: the top results are never compared.
TopDivsNever(java, go) == <<>>

\* compare, lines 99-114
TopDivs(java, go) ==
    LET java_top_id == GetEntityId(java[1])
        go_top_id == GetEntityId(go[1])
    IN IF java_top_id # go_top_id
       THEN <<Divergence("TOP_RESULT_DIFFERS", "critical", <<java[1]>>,
                         <<go[1]>>, <<>>, NoScore, "None")>>
       ELSE <<>>

\* A faulty variant of Keys: every entry of the list gives a key, repeated ids too.
KeysOfEveryEntry(results) ==
    SelectSeq([i \in 1..Len(results) |-> GetEntityId(results[i])], Truthy)

\* The keys of the dict of lines 117-118, in insertion order
RECURSIVE Keys(_)
Keys(results) ==
    IF results = <<>> THEN <<>>
    ELSE LET front == Keys(SubSeq(results, 1, Len(results) - 1))
             k == GetEntityId(results[Len(results)])
         IN IF Truthy(k) /\ ~InSeq(k, front) THEN Append(front, k) ELSE front

\* The value the dict of lines 117-118 holds for key k: the last entry
ById(results, k) ==
    LET last == CHOOSE i \in 1..Len(results) :
                    /\ GetEntityId(results[i]) = k
                    /\ \A j \in (i + 1)..Len(results) :
                           GetEntityId(results[j]) # k
    IN results[last]

\* A faulty variant of ScoreSeverity: the moderate band starts at the threshold itself.
ScoreSeverityInclusive(score_diff) ==
    IF score_diff > CriticalDiff THEN "critical"
    ELSE IF score_diff >= ModerateDiff THEN "moderate"
    ELSE IF score_diff >= MinorDiff THEN "minor"
    ELSE "none"

\* compare, lines 128-146: the severity of a score difference
ScoreSeverity(score_diff) ==
    IF score_diff > CriticalDiff THEN "critical"
    ELSE IF score_diff > ModerateDiff THEN "moderate"
    ELSE IF score_diff > MinorDiff THEN "minor"
    ELSE "none"

\* compare, lines 122-154: the body of the loop for one key
ScoreDivOf(k, java, go) ==
    IF InSeq(k, Keys(go))
    THEN LET java_entity == ById(java, k)
             go_entity == ById(go, k)
             score_diff == Abs(GetEntityScore(java_entity)
                               - GetEntityScore(go_entity))
             severity == ScoreSeverity(score_diff)
         IN IF severity = "none" THEN <<>>
            ELSE <<Divergence("SCORE_DIFFERENCE", severity, <<java_entity>>,
                              <<go_entity>>, <<>>, score_diff, "None")>>
    ELSE <<>>

\* compare, lines 120-154
RECURSIVE ScoreDivs(_, _, _)
ScoreDivs(keys, java, go) ==
    IF keys = <<>> THEN <<>>
    ELSE ScoreDivOf(Head(keys), java, go) \o ScoreDivs(Tail(keys), java, go)

\* compare, lines 156-174: the results only one side returned
RECURSIVE OnlyDivs(_, _, _, _)
OnlyDivs(keys, mine, other, type) ==
    IF keys = <<>> THEN <<>>
    ELSE LET k == Head(keys)
             rest == OnlyDivs(Tail(keys), mine, other, type)
         IN IF InSeq(k, Keys(other)) THEN rest
            ELSE <<IF type = "JAVA_EXTRA_RESULT"
                   THEN Divergence(type, "moderate", <<ById(mine, k)>>, <<>>,
                                   <<>>, NoScore, "None")
                   ELSE Divergence(type, "moderate", <<>>, <<ById(mine, k)>>,
                                   <<>>, NoScore, "None")>> \o rest

\* ResultAnalyzer.compare
Compare(java, go) ==
    IF java = <<>> /\ go = <<>> THEN <<>>
    ELSE IF java = <<>> THEN ExtraPerEntry(go, "GO_EXTRA_RESULT")
    ELSE IF go = <<>> THEN ExtraPerEntry(java, "JAVA_EXTRA_RESULT")
    ELSE TopDivs(java, go)
         \o ScoreDivs(Keys(java), java, go)
         \o OnlyDivs(Keys(java), java, go, "JAVA_EXTRA_RESULT")
         \o OnlyDivs(Keys(go), go, java, "GO_EXTRA_RESULT")

\* normalize_id of compare_three_way
NormalizeId(entity_id) ==
    IF ~Truthy(entity_id) THEN NoneId
    ELSE IF Head(entity_id) \in IdPrefixes THEN Tail(entity_id)
    ELSE entity_id

\* compare_three_way, lines 262-280: the three tops agree on the entity
AgreeDivs(java_top, go_top, external_top) ==
    LET java_score == IF java_top # <<>> THEN GetEntityScore(java_top[1]) ELSE 0
        go_score == IF go_top # <<>> THEN GetEntityScore(go_top[1]) ELSE 0
        external_score ==
            IF external_top # <<>> THEN GetEntityScore(external_top[1]) ELSE 0
        max_diff == Max(Abs(java_score - go_score),
                        Max(Abs(java_score - external_score),
                            Abs(go_score - external_score)))
    IN IF max_diff > ThreeWayDiff
       THEN <<Divergence("SCORE_DIFFERENCE", "moderate", java_top, go_top,
                         external_top, max_diff, "all_agree_entity")>>
       ELSE <<>>

\* ResultAnalyzer.compare_three_way
CompareThreeWay(java, go, external) ==
    LET java_top == IF java # <<>> THEN <<java[1]>> ELSE <<>>
        go_top == IF go # <<>> THEN <<go[1]>> ELSE <<>>
        external_top == IF external # <<>> THEN <<external[1]>> ELSE <<>>
        java_top_id ==
            NormalizeId(IF java # <<>> THEN GetEntityId(java[1]) ELSE NoneId)
        go_top_id ==
            NormalizeId(IF go # <<>> THEN GetEntityId(go[1]) ELSE NoneId)
        external_top_id ==
            NormalizeId(IF external # <<>> THEN GetEntityId(external[1])
                        ELSE NoneId)
    IN IF java = <<>> /\ go = <<>> /\ external = <<>> THEN <<>>
       ELSE IF /\ java_top_id = go_top_id
               /\ go_top_id = external_top_id
               /\ java_top_id # NoneId
       THEN AgreeDivs(java_top, go_top, external_top)
       ELSE IF java_top_id = go_top_id /\ java_top_id # external_top_id
       THEN <<Divergence("TWO_VS_ONE", "moderate", java_top, go_top,
                         external_top, NoScore, "java+go vs external")>>
       ELSE IF java_top_id = external_top_id /\ java_top_id # go_top_id
       THEN <<Divergence("TWO_VS_ONE", "critical", java_top, go_top,
                         external_top, NoScore, "java+external vs go")>>
       ELSE IF go_top_id = external_top_id /\ go_top_id # java_top_id
       THEN <<Divergence("TWO_VS_ONE", "critical", java_top, go_top,
                         external_top, NoScore, "go+external vs java")>>
       ELSE <<Divergence("THREE_WAY_SPLIT", "minor", java_top, go_top,
                         external_top, NoScore, "all_differ")>>

\* The result lists of at most n entries of E
ResultLists(E, n) == UNION {[1..k -> E] : k \in 0..n}

\* Inputs of compare: scores around every threshold of the difference
JavaEntities ==
    {JavaEntity(i, s) : i \in {<<"1">>, <<"2">>}, s \in {900, 920, 950, 1000}}
    \cup {JavaEntity(NoneId, 900)}

GoEntities ==
    {GoEntity(i, s) : i \in {<<"1">>, <<"2">>}, s \in {899, 900}}
    \cup {GoEntity(NoneId, 900), GoEntity(<<"1">>, NoScore)}

\* Inputs of compare_three_way: prefixed ids, scores around the threshold
JavaTops ==
    {JavaEntity(i, 900) : i \in {<<"1">>, <<"sdn-", "1">>, <<"2">>}}
    \cup {JavaEntity(NoneId, 900)}

GoTops ==
    {GoEntity(i, s) : i \in {<<"1">>, <<"ofac-", "1">>, <<"2">>},
                      s \in {900, 1000}}
    \cup {GoEntity(NoneId, 900)}

ExternalTops ==
    {JavaEntity(i, s) : i \in {<<"1">>, <<"3">>}, s \in {899, 1000}}
    \cup {UidEntity(<<"1">>, 900), UidEntity(<<"2">>, 900),
          JavaEntity(NoneId, 900)}

\* The defaults of run_nemesis.py, lines 27 and 30
DefaultEnv == [implementations |-> TRUE, external |-> FALSE]

CmpInit ==
    /\ java_results \in ResultLists(JavaEntities, MaxLen)
    /\ go_results \in ResultLists(GoEntities, MaxLen) \cup {java_results}
    /\ external_results = <<>>
    /\ divergences = <<>>
    /\ cmpPc = "input"
    /\ compare_env = DefaultEnv
    /\ all_divergences = <<>>

TriInit ==
    /\ java_results \in ResultLists(JavaTops, MaxLen3)
    /\ go_results \in ResultLists(GoTops, MaxLen3)
    /\ external_results \in ResultLists(ExternalTops, MaxLen3)
    /\ divergences = <<>>
    /\ cmpPc = "input"
    /\ compare_env = DefaultEnv
    /\ all_divergences = <<>>

CmpIdle ==
    /\ java_results = <<>>
    /\ go_results = <<>>
    /\ external_results = <<>>
    /\ divergences = <<>>
    /\ cmpPc = "input"
    /\ compare_env = DefaultEnv
    /\ all_divergences = <<>>

\* A call of compare(java_results, go_results)
CompareCall ==
    /\ cmpPc = "input"
    /\ divergences' = Compare(java_results, go_results)
    /\ cmpPc' = "done"
    /\ UNCHANGED <<java_results, go_results, external_results, compare_env,
                   all_divergences>>
    /\ CmpFrame

\* A call of compare_three_way(java_results, go_results, external_results)
CompareThreeWayCall ==
    /\ cmpPc = "input"
    /\ divergences' =
           CompareThreeWay(java_results, go_results, external_results)
    /\ cmpPc' = "done"
    /\ UNCHANGED <<java_results, go_results, external_results, compare_env,
                   all_divergences>>
    /\ CmpFrame

\* Step 5 of run_nemesis.main starts with the results of one query that the
\* Java and the Go API (and, when asked, the external provider) answered
\* successfully: each result list is a list, possibly empty
AnaInit ==
    /\ java_results \in ResultLists(JavaTops, MaxLen3)
    /\ go_results \in ResultLists(GoTops, MaxLen3)
    /\ external_results \in ResultLists(ExternalTops, MaxLen3)
    /\ divergences = <<>>
    /\ cmpPc = "input"
    /\ compare_env \in [implementations : BOOLEAN, external : BOOLEAN]
    /\ all_divergences = <<>>

\* The dict run_nemesis.main appends for a divergence, lines 297-319 and
\* 337-354, without the query, the description and the entity data
ReportEntry(div) ==
    [type |-> div.type, severity |-> div.severity,
     score_difference |-> div.score_difference]

\* run_nemesis.main, lines 274-354: one turn of the loop over the results
AnalyzeResult ==
    /\ cmpPc = "input"
    /\ divergences' =
           IF /\ compare_env.external
              /\ java_results # <<>> /\ go_results # <<>>
              /\ external_results # <<>>
           THEN CompareThreeWay(java_results, go_results, external_results)
           ELSE IF /\ compare_env.implementations
                   /\ java_results # <<>> /\ go_results # <<>>
           THEN Compare(java_results, go_results)
           ELSE <<>>
    /\ all_divergences' =
           all_divergences
           \o [i \in 1..Len(divergences') |-> ReportEntry(divergences'[i])]
    /\ cmpPc' = "analyzed"
    /\ UNCHANGED <<java_results, go_results, external_results, compare_env>>
    /\ CmpFrame

(***************************************************************************)
(* QueryExecutor (query_executor.py) and OFACAPIAdapter.search             *)
(* (external_provider_adapter.py).                                         *)
(* An Optional value is a sequence: <<>> is None, <<v>> is the value v.    *)
(* So <<"">> is the empty string and <<<<>>>> the empty list.              *)
(***************************************************************************)
None == <<>>

\* What one requests.get of _call_api can run into
\*   ok_hit      HTTP 200, body {"entities": [e]}
\*   ok_nokey    HTTP 200, body {}
\*   ok_null     HTTP 200, body {"entities": null}
\*   bad_body    HTTP 200, body that response.json() or data.get() rejects
\*   http_error  a status other than 200
\*   timeout     requests.Timeout
\*   conn_error  requests.ConnectionError
\*   exc_empty   another exception, whose str() is ""
ApiOutcomes == {"ok_hit", "ok_nokey", "ok_null", "bad_body", "http_error",
                "timeout", "conn_error", "exc_empty"}

\* What the requests.post of the adapter can run into
\*   hit / miss: HTTP 200, the body has / has not a result for the query
ExternalOutcomes == {"hit", "miss", "bad_body", "http_error", "timeout",
                     "conn_error", "exc_empty"}

\* _call_api, lines 176-180: the attempt returns from the function
Returns200(outcome) == outcome \in {"ok_hit", "ok_nokey", "ok_null"}

\* _call_api, lines 178-180: the tuple returned on a parsed HTTP 200
SuccessTuple(outcome, enable_trace) ==
    [results |-> CASE outcome = "ok_hit" -> <<<<"entity">>>>
                   [] outcome = "ok_nokey" -> <<<<>>>>
                   [] OTHER -> None,
     elapsed |-> <<"ms">>,
     error |-> None,
     trace |-> IF enable_trace THEN <<"trace">> ELSE None]

\* _call_api, lines 182-194, and search_batch, lines 99, 119-123: the error
\* message of a failure
ErrorMessage(outcome) ==
    CASE outcome = "http_error" -> "HTTP 500"
      [] outcome = "timeout" -> "Timeout"
      [] outcome = "conn_error" -> "Connection error"
      [] outcome = "bad_body" -> "Expecting value"
      [] OTHER -> ""

\* _call_api, lines 184, 188, 191, 194, 200: the tuple returned on failure
FailureTuple(message) ==
    [results |-> None, elapsed |-> None, error |-> <<message>>, trace |-> None]

\* A faulty variant of IsLastAttempt: no attempt is taken for the last one.
IsLastAttemptNever(a, max_retries) == FALSE

\* _call_api, lines 183, 187, 190, 193
IsLastAttempt(a, max_retries) == a = max_retries - 1

\* _call_api, line 197
ShouldPause(a, max_retries) == a < max_retries - 1

\* The truth value Python gives an Optional[str]
TruthyStr(e) == e # None /\ e # <<"">>

\* OFACAPIAdapter.search, lines 51, 89-123: (results_by_query, elapsed, error)
AdapterSearch(outcome) ==
    CASE outcome = "hit" ->
            [results_by_query |-> <<"query">>, elapsed |-> <<"ms">>,
             error |-> None]
      [] outcome = "miss" ->
            [results_by_query |-> <<"other">>, elapsed |-> <<"ms">>,
             error |-> None]
      [] OTHER ->
            [results_by_query |-> None, elapsed |-> None,
             error |-> <<ErrorMessage(outcome)>>]

\* _call_external, lines 228-233, given what search returned; raised is the
\* AttributeError of None.get
CallExternalReturn(found) ==
    IF TruthyStr(found.error)
    THEN [raised |-> FALSE, results |-> None, elapsed |-> None,
          error |-> found.error]
    ELSE IF found.results_by_query = None
         THEN [raised |-> TRUE, results |-> None, elapsed |-> None,
               error |-> None]
         ELSE [raised |-> FALSE,
               results |-> IF found.results_by_query = <<"query">>
                           THEN <<<<"entity">>>> ELSE <<<<>>>>,
               elapsed |-> found.elapsed, error |-> None]

\* QueryResult(query=query), lines 16-25
NewResult ==
    [java_results |-> None, java_time_ms |-> None, java_error |-> None,
     java_trace |-> None, go_results |-> None, go_time_ms |-> None,
     go_error |-> None, external_results |-> None,
     external_time_ms |-> None, external_error |-> None]

NoArgs ==
    [compare_go |-> FALSE, compare_external |-> FALSE,
     enable_trace |-> FALSE, max_retries |-> 0]

NoReturn == FailureTuple("")

\* QueryExecutor.__init__, lines 40-42
ApiInit ==
    /\ go_url \in BOOLEAN
    /\ external_adapter \in BOOLEAN
    /\ args = NoArgs
    /\ result = NewResult
    /\ apiPc = "idle"
    /\ callPc = "none"
    /\ attempt = 0
    /\ log = <<>>
    /\ ret = NoReturn

ApiIdle ==
    /\ go_url = FALSE
    /\ external_adapter = FALSE
    /\ args = NoArgs
    /\ result = NewResult
    /\ apiPc = "idle"
    /\ callPc = "none"
    /\ attempt = 0
    /\ log = <<>>
    /\ ret = NoReturn

\* Entry of _call_api, line 156
EnterCall ==
    /\ callPc' = "loop"
    /\ attempt' = 0
    /\ log' = <<>>

\* execute, lines 71-76: a call of execute up to the entry of the Java call
Execute(compare_go, compare_external, enable_trace, max_retries) ==
    /\ apiPc = "idle"
    /\ args' = [compare_go |-> compare_go,
                compare_external |-> compare_external,
                enable_trace |-> enable_trace, max_retries |-> max_retries]
    /\ result' = NewResult
    /\ apiPc' = "java"
    /\ EnterCall
    /\ UNCHANGED <<go_url, external_adapter, ret>>
    /\ ApiFrame

\* _call_api, lines 156-194: one pass of the loop body up to line 196
Attempt(outcome) ==
    /\ callPc = "loop"
    /\ attempt < args.max_retries
    /\ log' = Append(log, outcome)
    /\ IF Returns200(outcome)
       THEN /\ ret' = SuccessTuple(outcome,
                          apiPc = "java" /\ args.enable_trace)
            /\ callPc' = "ret"
       ELSE IF IsLastAttempt(attempt, args.max_retries)
            THEN /\ ret' = FailureTuple(ErrorMessage(outcome))
                 /\ callPc' = "ret"
            ELSE /\ ret' = ret
                 /\ callPc' = "pause"
    /\ UNCHANGED <<go_url, external_adapter, args, result, apiPc, attempt>>
    /\ ApiFrame

\* _call_api, lines 196-198, and the step of the loop
Pause ==
    /\ callPc = "pause"
    /\ log' = IF ShouldPause(attempt, args.max_retries)
              THEN Append(log, "sleep") ELSE log
    /\ attempt' = attempt + 1
    /\ callPc' = "loop"
    /\ UNCHANGED <<go_url, external_adapter, args, result, apiPc, ret>>
    /\ ApiFrame

\* _call_api, line 200: the loop ended without a return
Exhausted ==
    /\ callPc = "loop"
    /\ attempt >= args.max_retries
    /\ ret' = FailureTuple("Max retries exceeded")
    /\ callPc' = "ret"
    /\ UNCHANGED <<go_url, external_adapter, args, result, apiPc, attempt,
                   log>>
    /\ ApiFrame

\* execute, line 92
WantsExternal == args.compare_external /\ external_adapter

\* execute, lines 77-86: the Java tuple is stored, the Go call begins if asked
StoreJava ==
    /\ apiPc = "java"
    /\ callPc = "ret"
    /\ result' = [result EXCEPT
                     !.java_results = ret.results,
                     !.java_time_ms = ret.elapsed,
                     !.java_error = ret.error,
                     !.java_trace = IF args.enable_trace THEN ret.trace
                                    ELSE None]
    /\ IF args.compare_go /\ go_url
       THEN /\ apiPc' = "go"
            /\ EnterCall
       ELSE /\ apiPc' = IF WantsExternal THEN "external" ELSE "returned"
            /\ callPc' = "none"
            /\ UNCHANGED <<attempt, log>>
    /\ UNCHANGED <<go_url, external_adapter, args, ret>>
    /\ ApiFrame

\* execute, lines 87-92: the Go tuple is stored
StoreGo ==
    /\ apiPc = "go"
    /\ callPc = "ret"
    /\ result' = [result EXCEPT
                     !.go_results = ret.results,
                     !.go_time_ms = ret.elapsed,
                     !.go_error = ret.error]
    /\ apiPc' = IF WantsExternal THEN "external" ELSE "returned"
    /\ callPc' = "none"
    /\ UNCHANGED <<go_url, external_adapter, args, attempt, log, ret>>
    /\ ApiFrame

\* execute, lines 93-97, with _call_external, lines 214-233
CallExternal(outcome) ==
    /\ apiPc = "external"
    /\ LET back == CallExternalReturn(AdapterSearch(outcome))
       IN IF back.raised
          THEN /\ apiPc' = "raised"
               /\ result' = result
          ELSE /\ apiPc' = "returned"
               /\ result' = [result EXCEPT
                                !.external_results = back.results,
                                !.external_time_ms = back.elapsed,
                                !.external_error = back.error]
    /\ UNCHANGED <<go_url, external_adapter, args, callPc, attempt, log, ret>>
    /\ ApiFrame

ApiNext ==
    \/ \E compare_go, compare_external, enable_trace \in BOOLEAN :
           \E max_retries \in 0..MaxRetriesBound :
               Execute(compare_go, compare_external, enable_trace,
                       max_retries)
    \/ \E outcome \in ApiOutcomes : Attempt(outcome)
    \/ Pause
    \/ Exhausted
    \/ StoreJava
    \/ StoreGo
    \/ \E outcome \in ExternalOutcomes : CallExternal(outcome)

(***************************************************************************)
(* QueryExecutor.execute_batch (query_executor.py, lines 99-135).          *)
(* One pass of its loop is one call of execute, taken as a whole: what     *)
(* execute returns is computed from what the last attempt of each          *)
(* _call_api and the adapter ran into.  The progress line printed is not   *)
(* modelled.                                                               *)
(***************************************************************************)
Queries == {"Query1", "Query2"}

\* What the calls of a batch run into
BatchJavaOutcomes == {"ok_hit", "timeout"}
BatchGoOutcomes == {"ok_hit", "http_error"}
BatchExternalOutcomes == {"hit", "timeout", "exc_empty"}

\* _call_api, lines 156-194, max_retries >= 1: the tuple returned when the
\* attempt that ends the call has this outcome
CallApiReturn(outcome, enable_trace) ==
    IF Returns200(outcome) THEN SuccessTuple(outcome, enable_trace)
    ELSE FailureTuple(ErrorMessage(outcome))

\* execute, lines 71-97, as a function of what its calls ran into
ExecuteOnce(compare_go, compare_external, jo, go, eo) ==
    LET j == CallApiReturn(jo, FALSE)
        g == CallApiReturn(go, FALSE)
        e == CallExternalReturn(AdapterSearch(eo))
        r1 == [NewResult EXCEPT !.java_results = j.results,
                                !.java_time_ms = j.elapsed,
                                !.java_error = j.error]
        r2 == IF compare_go /\ go_url
              THEN [r1 EXCEPT !.go_results = g.results,
                              !.go_time_ms = g.elapsed,
                              !.go_error = g.error]
              ELSE r1
    IN IF compare_external /\ external_adapter
       THEN [raised |-> e.raised,
             result |-> IF e.raised THEN r2
                        ELSE [r2 EXCEPT !.external_results = e.results,
                                        !.external_time_ms = e.elapsed,
                                        !.external_error = e.error]]
       ELSE [raised |-> FALSE, result |-> r2]

NoBatchArgs == [compare_go |-> FALSE, compare_external |-> FALSE]

\* Before a call of execute_batch
BatIdle ==
    /\ test_cases = <<>>
    /\ batch_args = NoBatchArgs
    /\ batch_i = 0
    /\ batch_results = <<>>
    /\ issued = <<>>
    /\ batchPc = "idle"

\* execute_batch, lines 120-121: entry of the call
BatchStart(cases, compare_go, compare_external) ==
    /\ batchPc = "idle"
    /\ test_cases' = cases
    /\ batch_args' = [compare_go |-> compare_go,
                      compare_external |-> compare_external]
    /\ batch_i' = 0
    /\ batch_results' = <<>>
    /\ issued' = <<>>
    /\ batchPc' = "loop"
    /\ UNCHANGED apiVars
    /\ BatFrame

\* execute_batch, line 133
BatchAppend(results, query, r) ==
    Append(results, [query |-> query, fields |-> r])

\* execute_batch, lines 123-133: one pass of the loop
BatchQuery(jo, go, eo) ==
    /\ batchPc = "loop"
    /\ batch_i < Len(test_cases)
    /\ LET query == test_cases[batch_i + 1]
           back == ExecuteOnce(batch_args.compare_go,
                               batch_args.compare_external, jo, go, eo)
       IN /\ issued' = Append(issued, query)
          /\ IF back.raised
             THEN /\ batchPc' = "raised"
                  /\ UNCHANGED <<batch_i, batch_results>>
             ELSE /\ batchPc' = "loop"
                  /\ batch_i' = batch_i + 1
                  /\ batch_results' =
                         BatchAppend(batch_results, query, back.result)
    /\ UNCHANGED <<test_cases, batch_args>>
    /\ UNCHANGED apiVars
    /\ BatFrame

\* execute_batch, line 135
BatchReturn ==
    /\ batchPc = "loop"
    /\ batch_i >= Len(test_cases)
    /\ batchPc' = "returned"
    /\ UNCHANGED <<test_cases, batch_args, batch_i, batch_results, issued>>
    /\ UNCHANGED apiVars
    /\ BatFrame

BatNext ==
    \/ \E cases \in UNION {[1..n -> Queries] : n \in 0..MaxBatch} :
           \E compare_go, compare_external \in BOOLEAN :
               BatchStart(cases, compare_go, compare_external)
    \/ \E jo \in BatchJavaOutcomes, go \in BatchGoOutcomes,
          eo \in BatchExternalOutcomes : BatchQuery(jo, go, eo)
    \/ BatchReturn

(***************************************************************************)
(* WatchmanLoadTester (aws_load_test.py): test_search_endpoint, lines      *)
(* 126-241, and test_batch_endpoint, lines 243-330.  The calling thread    *)
(* and the workers of the ThreadPoolExecutor are interleaved; the clock    *)
(* tests are nondeterministic.  Log lines, the sleep that paces the loop   *)
(* and the latency statistics are not modelled.                            *)
(***************************************************************************)
Requests == 1..MaxSubmit

\* What the one requests.get / requests.post of a request can run into
LoadOutcomes == {"ok", "http_error", "timeout", "exc"}

\* A faulty variant of RequestResult: the status of the answer is not read.
RequestResultAnyStatus(outcome) ==
    CASE outcome \in {"ok", "http_error"} -> [success |-> TRUE, error |-> ""]
      [] outcome = "timeout" -> [success |-> FALSE, error |-> "Timeout"]
      [] OTHER -> [success |-> FALSE, error |-> "Connection refused"]

\* make_search_request, lines 152-161, make_batch_request, lines 279-288:
\* (success, error_msg) of the tuple returned
RequestResult(outcome) ==
    CASE outcome = "ok" -> [success |-> TRUE, error |-> ""]
      [] outcome = "http_error" -> [success |-> FALSE, error |-> "HTTP 500"]
      [] outcome = "timeout" -> [success |-> FALSE, error |-> "Timeout"]
      [] OTHER -> [success |-> FALSE, error |-> "Connection refused"]

ErrorKeys == {"HTTP 500", "Timeout", "Connection refused"}

NoFuture == [status |-> "none", outcome |-> "ok"]

\* The counters, as one value
Tally ==
    [latencies |-> latencies, successful |-> successful, failed |-> failed,
     errors |-> errors]

\* Lines 179-186, 203-213, 292-299: one resolved request is accounted
Account(t, r, outcome) ==
    LET res == RequestResult(outcome)
    IN [latencies |-> Append(t.latencies, r),
        successful |-> IF res.success THEN t.successful + 1
                       ELSE t.successful,
        failed |-> IF res.success THEN t.failed ELSE t.failed + 1,
        errors |-> IF res.success THEN t.errors
                   ELSE [t.errors EXCEPT ![res.error] = @ + 1]]

\* Lines 178-186: the done futures are accounted in the order of the list
RECURSIVE AccountAll(_, _)
AccountAll(t, done) ==
    IF done = <<>> THEN t
    ELSE AccountAll(Account(t, Head(done), fut[Head(done)].outcome),
                    Tail(done))

\* A faulty variant of RemoveDone: the futures accounted stay in the list.
RemoveNothing(futs, done) == futs

\* Line 188: futures.remove(future) for every done future
RemoveDone(futs, done) ==
    LET Keep(r) == \A i \in 1..Len(done) : done[i] # r
    IN SelectSeq(futs, Keep)

LdIdle ==
    /\ ldPc = "idle"
    /\ concurrent_users = 0
    /\ num_requests = 0
    /\ futures = <<>>
    /\ fut = [r \in Requests |-> NoFuture]
    /\ pending = {}
    /\ query_index = 0
    /\ latencies = <<>>
    /\ successful = 0
    /\ failed = 0
    /\ errors = [e \in ErrorKeys |-> 0]
    /\ total_requests = 0
    /\ attempts = [r \in Requests |-> <<>>]

\* test_search_endpoint, lines 136-167
StartSearch(users) ==
    /\ ldPc = "idle"
    /\ ldPc' = "while"
    /\ concurrent_users' = users
    /\ UNCHANGED <<num_requests, futures, fut, pending, query_index,
                   latencies, successful, failed, errors, total_requests,
                   attempts>>
    /\ LdFrame

\* Lines 169-174: there is time left, a request is submitted
Submit ==
    /\ ldPc = "while"
    /\ query_index < MaxSubmit
    /\ LET r == query_index + 1
       IN /\ fut' = [fut EXCEPT ![r] = [status |-> "queued", outcome |-> "ok"]]
          /\ futures' = Append(futures, r)
    /\ query_index' = query_index + 1
    /\ ldPc' = "poll"
    /\ UNCHANGED <<concurrent_users, num_requests, pending, latencies,
                   successful, failed, errors, total_requests, attempts>>
    /\ LdFrame

\* Lines 177-188: the futures found done are accounted and removed.  The
\* list comprehension of line 177 reads f.done() one future after another,
\* so it finds some of the futures that are done by its end.
Poll(found) ==
    /\ ldPc = "poll"
    /\ \A r \in found : fut[r].status = "done"
    /\ LET IsFound(r) == r \in found
           done_futures == SelectSeq(futures, IsFound)
           t == AccountAll(Tally, done_futures)
       IN /\ latencies' = t.latencies
          /\ successful' = t.successful
          /\ failed' = t.failed
          /\ errors' = t.errors
          /\ futures' = RemoveDone(futures, done_futures)
    /\ ldPc' = "while"
    /\ UNCHANGED <<concurrent_users, num_requests, fut, pending, query_index,
                   total_requests, attempts>>
    /\ LdFrame

\* Line 169 false, line 202: the time is over, as_completed takes the list
EnterDrain ==
    /\ ldPc = "while"
    /\ ldPc' = "drain"
    /\ pending' = {futures[i] : i \in 1..Len(futures)}
    /\ UNCHANGED <<concurrent_users, num_requests, futures, fut, query_index,
                   latencies, successful, failed, errors, total_requests,
                   attempts>>
    /\ LdFrame

\* Lines 202-213: as_completed yields a future that has completed
DrainOne(r) ==
    /\ ldPc = "drain"
    /\ r \in pending
    /\ fut[r].status = "done"
    /\ LET t == Account(Tally, r, fut[r].outcome)
       IN /\ latencies' = t.latencies
          /\ successful' = t.successful
          /\ failed' = t.failed
          /\ errors' = t.errors
    /\ pending' = pending \ {r}
    /\ UNCHANGED <<ldPc, concurrent_users, num_requests, futures, fut,
                   query_index, total_requests, attempts>>
    /\ LdFrame

\* Lines 215-241 and 304-330: the TestResult is built
LoadReturn ==
    /\ \/ ldPc = "drain" /\ pending = {}
       \/ ldPc = "for" /\ query_index >= num_requests
    /\ total_requests' = successful + failed
    /\ ldPc' = "returned"
    /\ UNCHANGED <<concurrent_users, num_requests, futures, fut, pending,
                   query_index, latencies, successful, failed, errors,
                   attempts>>
    /\ LdFrame

\* A worker of the pool takes a queued request: line 149 is under way
WorkerStart(r) ==
    /\ fut[r].status = "queued"
    /\ Cardinality({q \in Requests : fut[q].status = "running"})
           < concurrent_users
    /\ fut' = [fut EXCEPT ![r].status = "running"]
    /\ UNCHANGED <<ldPc, concurrent_users, num_requests, futures, pending,
                   query_index, latencies, successful, failed, errors,
                   total_requests, attempts>>
    /\ LdFrame

\* make_search_request returns in its worker, lines 150-161
WorkerFinish(r, outcome) ==
    /\ fut[r].status = "running"
    /\ fut' = [fut EXCEPT ![r] = [status |-> "done", outcome |-> outcome]]
    /\ attempts' = [attempts EXCEPT ![r] = Append(@, outcome)]
    /\ UNCHANGED <<ldPc, concurrent_users, num_requests, futures, pending,
                   query_index, latencies, successful, failed, errors,
                   total_requests>>
    /\ LdFrame

\* test_batch_endpoint, lines 253-257
StartBatch(n) ==
    /\ ldPc = "idle"
    /\ ldPc' = "for"
    /\ num_requests' = n
    /\ UNCHANGED <<concurrent_users, futures, fut, pending, query_index,
                   latencies, successful, failed, errors, total_requests,
                   attempts>>
    /\ LdFrame

\* test_batch_endpoint, lines 291-299: one request, made by the caller
BatchRequest(outcome) ==
    /\ ldPc = "for"
    /\ query_index < num_requests
    /\ LET r == query_index + 1
           t == Account(Tally, r, outcome)
       IN /\ attempts' = [attempts EXCEPT ![r] = Append(@, outcome)]
          /\ latencies' = t.latencies
          /\ successful' = t.successful
          /\ failed' = t.failed
          /\ errors' = t.errors
    /\ query_index' = query_index + 1
    /\ UNCHANGED <<ldPc, concurrent_users, num_requests, futures, fut,
                   pending, total_requests>>
    /\ LdFrame

LdNext ==
    \/ \E users \in 1..MaxUsers : StartSearch(users)
    \/ Submit
    \/ \E found \in SUBSET Requests : Poll(found)
    \/ EnterDrain
    \/ \E r \in Requests : DrainOne(r)
    \/ LoadReturn
    \/ \E r \in Requests : WorkerStart(r)
    \/ \E r \in Requests, outcome \in LoadOutcomes : WorkerFinish(r, outcome)
    \/ \E n \in 0..MaxSubmit : StartBatch(n)
    \/ \E outcome \in LoadOutcomes : BatchRequest(outcome)

(***************************************************************************)
(* run_nemesis.main (run_nemesis.py, lines 175-262).  The run ends at the  *)
(* call of execute_batch of line 256, which passes the keyword             *)
(* enable_trace to a method that has no such parameter: lines 264-500 are  *)
(* never reached and have no action here.  Printing is not modelled.       *)
(***************************************************************************)
\* QueryExecutor.execute_batch, lines 99-106: the parameters of the method
ExecuteBatchParams ==
    {"test_cases", "compare_go", "compare_external", "timeout",
     "show_progress"}

\* main, lines 256-262: the keywords of the call (test_cases is positional)
ExecuteBatchKeywords ==
    {"compare_go", "compare_external", "enable_trace", "show_progress"}

\* Python binds a call when every keyword is a parameter of the function
\* (or TypeError is raised)
Binds(params, keywords) == keywords \subseteq params

NoRunCfg == [compare_impl |-> FALSE, compare_external |-> FALSE,
             has_key |-> FALSE]

\* No report file is on disk
NoReport == [exists |-> FALSE, enabled |-> FALSE, reason |-> "", prs_created |-> <<>>]

RunIdle ==
    /\ runPc = "idle"
    /\ run_cfg = NoRunCfg
    /\ entities = 0
    /\ run_cases = <<>>
    /\ run_log = <<>>
    /\ output_file = NoReport

\* The ids of the entities fetched
FetchedIds == {"SDN-1", "SDN-2", "SDN-3"}

\* The order in which the service lists them
FetchedOrder == <<"SDN-1", "SDN-2", "SDN-3">>

\* main, lines 175-217: configuration, adapter, fetch_ofac_entities
RunStart(cfg, fetched) ==
    /\ runPc = "idle"
    /\ run_cfg' = cfg
    /\ IF cfg.compare_external /\ ~cfg.has_key
       THEN /\ runPc' = "exit1"
            /\ entities' = 0
       ELSE /\ entities' = fetched
            /\ runPc' = IF fetched = 0 THEN "exit1" ELSE "tracker"
    /\ UNCHANGED <<run_cases, run_log>>
    /\ UNCHANGED covVars
    /\ UNCHANGED output_file
    /\ RunFrame

\* main, lines 223-224: the tracker is constructed on the state file
LoadCoverage ==
    /\ runPc = "tracker"
    /\ total_entities' = entities
    /\ state' = LoadState(file, entities)
    /\ loaded' = SeqToSet(state'.tested_entity_ids)
    /\ recorded' = {}
    /\ lastOp' = "construct"
    /\ calls' = NoCalls
    /\ all_entities' = <<>>
    /\ count' = 0
    /\ prioritized' = <<>>
    /\ run_log' = Append(run_log, "load")
    /\ runPc' = "generate"
    /\ UNCHANGED <<file, clock, saved, run_cfg, entities, run_cases>>
    /\ UNCHANGED output_file
    /\ RunFrame

\* fetch_ofac_entities: the list of the first n entities of the service
Fetched(n) == [i \in 1..n |-> [id |-> FetchedOrder[i]]]

\* main, line 234: count=min(200, len(entities))
PrioritizedCap == 200

\* main, lines 234-236: the entities are prioritized and every test case is
\* made from a random.choice of the prioritized list
Generate(cases) ==
    /\ runPc = "generate"
    /\ all_entities' = Fetched(entities)
    /\ count' = IF PrioritizedCap < entities THEN PrioritizedCap ELSE entities
    /\ \E shuffled \in Shuffles(Untested(state, all_entities')) :
           prioritized' = Prioritize(state, all_entities', shuffled, count')
    /\ \A i \in 1..Len(cases) : \E j \in 1..Len(prioritized') :
           cases[i] = prioritized'[j].id
    /\ lastOp' = "get_prioritized_entities"
    /\ run_cases' = cases
    /\ run_log' = Append(run_log, "generate")
    /\ runPc' = "execute"
    /\ UNCHANGED <<run_cfg, entities>>
    /\ UNCHANGED <<total_entities, state, file, clock, recorded, loaded, calls, saved>>
    /\ UNCHANGED output_file
    /\ RunFrame

\* main, lines 250-262: the executor is built and execute_batch is called
ExecuteBatchCall ==
    /\ runPc = "execute"
    /\ IF Binds(ExecuteBatchParams, ExecuteBatchKeywords)
       THEN /\ run_log' = Append(run_log, "execute")
            /\ runPc' = "analyze"
       ELSE /\ run_log' = run_log
            /\ runPc' = "raised"
    /\ UNCHANGED <<run_cfg, entities, run_cases>>
    /\ UNCHANGED covVars
    /\ UNCHANGED output_file
    /\ RunFrame

\* The process has ended and the schedule starts main again: the coverage
\* file is what the ended run left, nothing else survives
RunAgain ==
    /\ runPc \in {"exit1", "raised"}
    /\ runPc' = "idle"
    /\ run_cfg' = NoRunCfg
    /\ entities' = 0
    /\ run_cases' = <<>>
    /\ run_log' = <<>>
    /\ UNCHANGED covVars
    /\ UNCHANGED output_file
    /\ RunFrame

RunNext ==
    \/ \E cfg \in [compare_impl : BOOLEAN, compare_external : BOOLEAN,
                   has_key : BOOLEAN] :
           \E fetched \in 0..Cardinality(FetchedIds) : RunStart(cfg, fetched)
    \/ LoadCoverage
    \/ \E cases \in UNION {[1..n -> FetchedIds] : n \in 0..MaxCases} :
           Generate(cases)
    \/ ExecuteBatchCall

(***************************************************************************)
(* run_repair_pipeline.py: main, lines 47-170, and the __main__ block,     *)
(* lines 173-180.  A stage is one run_command and the search for the       *)
(* artifact it should have written.  Printing is not modelled.             *)
(***************************************************************************)
\* The exit status of a process that has not exited
NoExit == -1

\* What a run_command can run into: the command succeeds, it exits non-zero
\* (CalledProcessError, caught), or subprocess.run raises another exception
StageOutcomes == {"ok", "failed", "oserror"}

\* What reading the latest report can run into
ReportOutcomes == {"none", "unreadable", "read"}

\* The artifacts of the pipeline, by the prefix of their file name
ArtifactKinds == {"action-plan", "code-analysis", "fix-proposal", "pr-results"}

\* Where the newest file of a kind in the reports directory comes from:
\* there is none, an earlier pipeline run wrote it, this run wrote it
Origins == {"none", "earlier", "this"}

\* No file of any kind
EmptyDir == [k \in ArtifactKinds |-> "none"]

RepIdle ==
    /\ repPc = "idle"
    /\ rep_env = [anthropic |-> FALSE, github |-> FALSE]
    /\ divergence_count = 0
    /\ stopped_by = "nothing"
    /\ exit_status = NoExit
    /\ reports_dir = EmptyDir
    /\ started = <<>>

\* main returns early: the conditions of lines 68, 81, 86, 96, 102, ...
Stop(why) ==
    /\ repPc' = "returned"
    /\ stopped_by' = why

\* sorted(reports_dir.glob(kind-*.json), reverse=True)[0]: the newest file
\* of the kind, whoever wrote it
Newest(dir, kind) == dir[kind]

\* run_command and the glob that follows it, lines 89-102, 108-121,
\* 132-145, 156-163.  The command is given the file named input; it may
\* write its artifact (the file name carries the time, so it is the newest
\* of its kind) or end without writing one, whatever its exit status.
RunStage(stage, input, kind, outcome, wrote, next) ==
    /\ started' = Append(started, [stage |-> stage, input |-> input,
                                   outcome |-> outcome])
    /\ reports_dir' = IF wrote /\ outcome # "oserror"
                      THEN [reports_dir EXCEPT ![kind] = "this"]
                      ELSE reports_dir
    /\ CASE outcome = "oserror" -> /\ repPc' = "raised"
                                   /\ stopped_by' = "exception"
         [] outcome = "failed" -> Stop("stage_failed")
         [] kind # "pr-results" /\ Newest(reports_dir', kind) = "none" ->
                Stop("no_artifact")
         [] OTHER -> /\ repPc' = next
                     /\ stopped_by' = stopped_by

\* main, lines 49-86: environment, latest report, its divergences, and the
\* files earlier runs left in the reports directory
RepStart(env, report, found, dir) ==
    /\ repPc = "idle"
    /\ rep_env' = env
    /\ reports_dir' = dir
    /\ CASE report = "none" -> Stop("no_report") /\ divergence_count' = 0
         [] report = "unreadable" ->
                Stop("unreadable_report") /\ divergence_count' = 0
         [] found = 0 -> Stop("no_divergences") /\ divergence_count' = 0
         [] OTHER -> /\ repPc' = "classify"
                     /\ stopped_by' = stopped_by
                     /\ divergence_count' = found
    /\ UNCHANGED <<exit_status, started>>
    /\ RepFrame

\* main, lines 89-105: repair_agent.py and the action plan
Classify(outcome, wrote) ==
    /\ repPc = "classify"
    /\ RunStage("classify", "report", "action-plan", outcome, wrote, "analyze")
    /\ UNCHANGED <<rep_env, divergence_count, exit_status>>
    /\ RepFrame

\* main, lines 108-124: code_analyzer.py and the code analysis
Analyze(outcome, wrote) ==
    /\ repPc = "analyze"
    /\ RunStage("analyze", Newest(reports_dir, "action-plan"), "code-analysis",
                outcome, wrote, "generate")
    /\ UNCHANGED <<rep_env, divergence_count, exit_status>>
    /\ RepFrame

\* A faulty variant of GenerateFixes: ANTHROPIC_API_KEY is not looked at.
GenerateFixesAnyway(outcome, wrote) ==
    /\ repPc = "generate"
    /\ RunStage("generate", Newest(reports_dir, "code-analysis"), "fix-proposal",
                outcome, wrote, "apply")
    /\ UNCHANGED <<rep_env, divergence_count, exit_status>>
    /\ RepFrame

\* main, lines 127-148: fix_generator.py and the fix proposal
GenerateFixes(outcome, wrote) ==
    /\ repPc = "generate"
    /\ IF ~rep_env.anthropic
       THEN Stop("missing_credential") /\ UNCHANGED <<reports_dir, started>>
       ELSE RunStage("generate", Newest(reports_dir, "code-analysis"),
                     "fix-proposal", outcome, wrote, "apply")
    /\ UNCHANGED <<rep_env, divergence_count, exit_status>>
    /\ RepFrame

\* main, lines 151-170: fix_applicator.py; no artifact is looked for
CreatePRs(outcome, wrote) ==
    /\ repPc = "apply"
    /\ IF ~rep_env.github
       THEN Stop("missing_credential") /\ UNCHANGED <<reports_dir, started>>
       ELSE RunStage("apply", Newest(reports_dir, "fix-proposal"), "pr-results",
                     outcome, wrote, "returned")
    /\ UNCHANGED <<rep_env, divergence_count, exit_status>>
    /\ RepFrame

\* run_nemesis.run_repair_pipeline, lines 116-134: the pr-results file whose
\* pull requests are reported as prs_created of the run
PrResultsLoaded(dir) == Newest(dir, "pr-results")

\* The __main__ block, lines 173-180: sys.exit(1) on an exception, and the
\* status 0 of a script that runs to its end
ExitStatus(pc) == IF pc = "raised" THEN 1 ELSE 0

\* The process exits
RepExit ==
    /\ repPc \in {"returned", "raised"}
    /\ exit_status' = ExitStatus(repPc)
    /\ repPc' = "exited"
    /\ UNCHANGED <<rep_env, divergence_count, stopped_by, reports_dir, started>>
    /\ RepFrame

RepNext ==
    \/ \E env \in [anthropic : BOOLEAN, github : BOOLEAN] :
           \E report \in ReportOutcomes, found \in 0..MaxDivergences :
               \E dir \in [ArtifactKinds -> {"none", "earlier"}] :
                   RepStart(env, report, found, dir)
    \/ \E outcome \in StageOutcomes, wrote \in BOOLEAN :
           Classify(outcome, wrote)
    \/ \E outcome \in StageOutcomes, wrote \in BOOLEAN :
           Analyze(outcome, wrote)
    \/ \E outcome \in StageOutcomes, wrote \in BOOLEAN :
           GenerateFixes(outcome, wrote)
    \/ \E outcome \in StageOutcomes, wrote \in BOOLEAN :
           CreatePRs(outcome, wrote)
    \/ RepExit

(***************************************************************************)
(* The AI report scripts: run-nemesis.py (parse_and_save_results, lines    *)
(* 267-312, main, lines 345-389) and run-strategic-analyzer.py             *)
(* (parse_and_save_results, lines 172-214, main, lines 297-325).           *)
(* The AI response is the record of its markdown fence, of whether the     *)
(* fence is closed, and of the kind of text inside.                        *)
(***************************************************************************)
Scripts == {"nemesis", "strategic"}

\* The text inside: a JSON object with all fields, a JSON object without
\* "issues", the empty JSON object, a JSON array, a JSON number, other text
BodyKinds == {"object", "object_no_issues", "object_empty", "array",
              "number", "text"}

Responses ==
    {[fence |-> "none", closed |-> TRUE, body |-> b] : b \in BodyKinds}
    \cup [fence : {"json", "bare"}, closed : BOOLEAN, body : BodyKinds]

\* Lines 274-283 / 178-187: json_str.  With an open fence find() gives -1
\* and the slice drops the last character of the response.
ExtractJson(resp) ==
    IF resp.fence = "none" \/ resp.closed THEN resp.body
    ELSE IF resp.body = "number" THEN "number" ELSE "text"

\* json.loads accepts the text
Parses(json_str) == json_str # "text"

\* Python truthiness of the data parsed
TruthyData(json_str) == json_str \in {"object", "object_no_issues", "number"}

\* run-nemesis.py, lines 285-312
ParseNemesis(resp) ==
    LET json_str == ExtractJson(resp)
    IN IF ~Parses(json_str)
       THEN [raised |-> FALSE, report |-> FALSE, raw |-> TRUE,
             ret |-> "None"]
       ELSE IF json_str # "object"
            THEN [raised |-> TRUE, report |-> FALSE, raw |-> FALSE,
                  ret |-> "unset"]
            ELSE [raised |-> FALSE, report |-> TRUE, raw |-> FALSE,
                  ret |-> json_str]

\* run-strategic-analyzer.py, lines 189-214: output_file is a Path, and
\* Path.replace does not take two arguments
ParseStrategic(resp) ==
    LET json_str == ExtractJson(resp)
    IN IF ~Parses(json_str)
       THEN [raised |-> TRUE, report |-> FALSE, raw |-> FALSE,
             ret |-> "unset"]
       ELSE IF json_str = "number"
            THEN [raised |-> TRUE, report |-> FALSE, raw |-> FALSE,
                  ret |-> "unset"]
            ELSE [raised |-> FALSE, report |-> TRUE, raw |-> FALSE,
                  ret |-> json_str]

AiIdle ==
    /\ aiPc = "idle"
    /\ ai_script = "nemesis"
    /\ ai_response = [fence |-> "none", closed |-> TRUE, body |-> "object"]
    /\ create_issues = FALSE
    /\ report_written = FALSE
    /\ raw_written = FALSE
    /\ parse_ret = "unset"
    /\ issue_created = FALSE
    /\ main_ret = NoExit

\* main up to the return of parse_and_save_results (lines 374 / 310)
AiParse(script, resp, issues) ==
    /\ aiPc = "idle"
    /\ ai_script' = script
    /\ ai_response' = resp
    /\ create_issues' = issues
    /\ LET back == IF script = "nemesis" THEN ParseNemesis(resp)
                   ELSE ParseStrategic(resp)
       IN /\ report_written' = back.report
          /\ raw_written' = back.raw
          /\ parse_ret' = back.ret
          /\ aiPc' = IF back.raised THEN "raised" ELSE "parsed"
    /\ UNCHANGED <<issue_created, main_ret>>
    /\ AiFrame

\* main, lines 376-389 / 312-325, and sys.exit(main())
AiMainEnd ==
    /\ aiPc \in {"parsed", "raised"}
    /\ IF aiPc = "raised"
       THEN /\ main_ret' = 1
            /\ issue_created' = FALSE
       ELSE LET data == parse_ret # "None" /\ TruthyData(parse_ret)
            IN /\ issue_created' = (data /\ create_issues)
               /\ main_ret' = IF data THEN 0 ELSE 1
    /\ aiPc' = IF aiPc = "raised" THEN "crashed" ELSE "returned"
    /\ UNCHANGED <<ai_script, ai_response, create_issues, report_written,
                   raw_written, parse_ret>>
    /\ AiFrame

AiNext ==
    \/ \E script \in Scripts, resp \in Responses, issues \in BOOLEAN :
           AiParse(script, resp, issues)
    \/ AiMainEnd

(***************************************************************************)
(* IssueClassifier.classify (repair_agent.py, lines 26-107).  Confidences, *)
(* coverage and consistency are in hundredths; root_causes is the list by  *)
(* its length; the category is what matters of it: whether one of          *)
(* RISK_KEYWORDS is in its lower-case form.                                *)
(***************************************************************************)
MIN_PATTERN_CONFIDENCE == 90
MAX_FILES_AFFECTED == 3
MIN_TEST_COVERAGE == 70
MIN_CONSISTENCY == 85

\* classify, line 94: below it a human-review becomes too-complex
AmbiguityBelow == 80

\* The issues classify is given: values on both sides of every threshold
Issues ==
    [pattern_confidence : {79, 80, 89, 90, 100},
     files_affected : {3, 4},
     test_coverage : {69, 70},
     risky : BOOLEAN,
     consistency_score : {84, 85},
     root_causes : 0..MaxRootCauses]

\* What one check of classify does to (classification, confidence, reasons)
Check(c, hit, classification, confidence, reason) ==
    IF hit
    THEN [classification |-> classification, confidence |-> confidence,
          reasons |-> Append(c.reasons, reason)]
    ELSE c

\* A faulty variant of Escalate: a human-review is never escalated.
EscalateNever(c) == c

\* classify, lines 93-96
Escalate(c) ==
    Check(c, c.classification = "human-review" /\ c.confidence < AmbiguityBelow,
          "too-complex", c.confidence, "High ambiguity")

\* IssueClassifier.classify
Classification(i) ==
    LET c0 == [classification |-> "auto-fix", confidence |-> 100, reasons |-> <<>>]
        c1 == Check(c0, i.pattern_confidence < MIN_PATTERN_CONFIDENCE,
                    "human-review", i.pattern_confidence, "Low pattern confidence")
        c2 == Check(c1, i.files_affected > MAX_FILES_AFFECTED,
                    "human-review", c1.confidence, "Multiple files affected")
        c3 == Check(c2, i.test_coverage < MIN_TEST_COVERAGE,
                    "human-review", c2.confidence, "Insufficient test coverage")
        c4 == Check(c3, i.risky,
                    "human-review", c3.confidence, "High-risk category")
        c5 == Check(c4, i.consistency_score < MIN_CONSISTENCY,
                    "human-review", c4.confidence, "Inconsistent pattern")
        c6 == Check(c5, i.root_causes > 1,
                    "too-complex", c5.confidence, "Multiple root causes")
        c7 == Escalate(c6)
        c8 == IF c7.reasons = <<>>
              THEN [c7 EXCEPT !.reasons = <<"Meets all auto-fix criteria">>]
              ELSE c7
    IN [classification |-> c8.classification,
        confidence |-> c8.confidence,
        reasons |-> c8.reasons,
        auto_fix_eligible |-> (c8.classification = "auto-fix")]

\* No IssueClassification yet
NoClassification ==
    [classification |-> "", confidence |-> 0, reasons |-> <<>>,
     auto_fix_eligible |-> FALSE]

NoIssue ==
    [pattern_confidence |-> 0, files_affected |-> 0, test_coverage |-> 0,
     risky |-> FALSE, consistency_score |-> 0, root_causes |-> 0]

ClsInit ==
    /\ issue \in Issues
    /\ classified = NoClassification
    /\ clsPc = "input"

ClsIdle ==
    /\ issue = NoIssue
    /\ classified = NoClassification
    /\ clsPc = "input"

\* A call of classify(issue)
ClassifyCall ==
    /\ clsPc = "input"
    /\ classified' = Classification(issue)
    /\ clsPc' = "done"
    /\ UNCHANGED issue
    /\ ClsFrame

(***************************************************************************)
(* FixApplicator.apply_fix (fix_applicator.py, lines 40-225).  A fix is    *)
(* what apply_fix reads of it: validation.valid and the number of its      *)
(* changes.  gh_ops lists the calls of the repository's mutating methods,  *)
(* each with whether it succeeded (a call that raises changes nothing).    *)
(***************************************************************************)
Fixes == [valid : BOOLEAN, changes : 0..MaxChanges]

NoFix == [valid |-> FALSE, changes |-> 0]

\* No dict returned yet
NoFixResult == [status |-> "", error |-> "", branch |-> None, pr_url |-> None]

\* The dicts apply_fix returns
ErrorResult(error) ==
    [status |-> "error", error |-> error, branch |-> None, pr_url |-> None]

SuccessResult(branch, pr_url) ==
    [status |-> "success", error |-> "", branch |-> <<branch>>,
     pr_url |-> <<pr_url>>]

\* A call of a mutating method of the repository or of the pull request
Op(name, ok) == [op |-> name, ok |-> ok]

\* A faulty variant of ValidateFix: an empty change list passes.
ValidateFixValidOnly(f) == f.valid

\* FixApplicator._validate_fix
ValidateFix(f) == f.valid /\ f.changes > 0

FixIdle ==
    /\ fixPc = "idle"
    /\ dry_run = FALSE
    /\ fix = NoFix
    /\ branch_name = None
    /\ change_i = 0
    /\ gh_ops = <<>>
    /\ fix_result = NoFixResult

\* apply_fix returns the dict
FixReturn(r) ==
    /\ fix_result' = r
    /\ fixPc' = "returned"

\* apply_fix, lines 49-63: the fix is read and validated
ApplyFix(dry, f) ==
    /\ fixPc = "idle"
    /\ dry_run' = dry
    /\ fix' = f
    /\ IF ValidateFix(f)
       THEN fixPc' = "branch" /\ fix_result' = fix_result
       ELSE FixReturn(ErrorResult("Fix validation failed"))
    /\ UNCHANGED <<branch_name, change_i, gh_ops>>
    /\ FixFrame

\* What _create_branch can run into when not in dry-run mode
BranchOutcomes == {"created", "get_branch_raises", "create_git_ref_raises"}

\* A faulty variant of BranchOps: the dry-run flag is not looked at.
BranchOpsLive(dry, outcome) ==
    IF outcome = "get_branch_raises" THEN <<>>
    ELSE <<Op("create_git_ref", outcome = "created")>>

\* The mutating call of _create_branch, lines 126-137: none in dry-run mode
\* (the method returns at line 128) and none when get_branch raises
BranchOps(dry, outcome) ==
    IF dry \/ outcome = "get_branch_raises" THEN <<>>
    ELSE <<Op("create_git_ref", outcome = "created")>>

\* apply_fix, lines 65-72, and _create_branch
CreateBranch(outcome) ==
    /\ fixPc = "branch"
    /\ gh_ops' = gh_ops \o BranchOps(dry_run, outcome)
    /\ IF dry_run
       THEN /\ branch_name' = <<"nemesis/issue/time">>
            /\ fixPc' = "apply"
            /\ fix_result' = fix_result
       ELSE /\ IF outcome = "created"
               THEN /\ branch_name' = <<"nemesis/issue/time">>
                    /\ fixPc' = "apply"
                    /\ fix_result' = fix_result
               ELSE /\ branch_name' = None
                    /\ FixReturn(ErrorResult("Failed to create branch"))
    /\ UNCHANGED <<dry_run, fix, change_i>>
    /\ FixFrame

\* What one change of _apply_changes can run into when not in dry-run mode:
\* the file exists and is updated, it does not (404) and is created, or one
\* of get_contents, update_file, create_file raises; an update_file that
\* raises with status 404 is followed by create_file as well (lines 183-192)
ChangeOutcomes ==
    {"updated", "created", "get_contents_raises", "update_file_raises",
     "create_file_raises", "update_404_created", "update_404_create_raises"}

\* The mutating call a change makes, if it gets to one
ChangeOp(outcome) ==
    CASE outcome = "updated" -> <<Op("update_file", TRUE)>>
      [] outcome = "update_file_raises" -> <<Op("update_file", FALSE)>>
      [] outcome = "created" -> <<Op("create_file", TRUE)>>
      [] outcome = "create_file_raises" -> <<Op("create_file", FALSE)>>
      [] outcome = "update_404_created" ->
             <<Op("update_file", FALSE), Op("create_file", TRUE)>>
      [] outcome = "update_404_create_raises" ->
             <<Op("update_file", FALSE), Op("create_file", FALSE)>>
      [] OTHER -> <<>>

\* apply_fix, lines 74-81, and _apply_changes: one turn of the loop over
\* the changes (in dry-run mode, the whole loop, which only prints)
ApplyChange(outcome) ==
    /\ fixPc = "apply"
    /\ IF dry_run
       THEN /\ change_i' = fix.changes
            /\ gh_ops' = gh_ops
            /\ fixPc' = "pr"
            /\ fix_result' = fix_result
       ELSE /\ gh_ops' = gh_ops \o ChangeOp(outcome)
            /\ IF outcome \in {"updated", "created", "update_404_created"}
               THEN /\ change_i' = change_i + 1
                    /\ fixPc' = IF change_i' = fix.changes THEN "pr" ELSE "apply"
                    /\ fix_result' = fix_result
               ELSE /\ change_i' = change_i
                    /\ FixReturn(ErrorResult("Failed to apply changes"))
    /\ UNCHANGED <<dry_run, fix, branch_name>>
    /\ FixFrame

\* What _create_pull_request can run into when not in dry-run mode
PullOutcomes ==
    {"created", "create_pull_raises", "add_to_labels_raises",
     "create_review_request_raises"}

\* The mutating calls of _create_pull_request, lines 227-244; labels is
\* never empty, reviewers is when NEMESIS_REVIEWERS is not set
PullOps(outcome, reviewers) ==
    CASE outcome = "create_pull_raises" -> <<Op("create_pull", FALSE)>>
      [] outcome = "add_to_labels_raises" ->
             <<Op("create_pull", TRUE), Op("add_to_labels", FALSE)>>
      [] outcome = "create_review_request_raises" ->
             <<Op("create_pull", TRUE), Op("add_to_labels", TRUE),
               Op("create_review_request", FALSE)>>
      [] OTHER ->
             <<Op("create_pull", TRUE), Op("add_to_labels", TRUE)>>
             \o (IF reviewers THEN <<Op("create_review_request", TRUE)>>
                 ELSE <<>>)

\* apply_fix, lines 83-98, and _create_pull_request
CreatePullRequest(outcome, reviewers) ==
    /\ fixPc = "pr"
    /\ outcome = "create_review_request_raises" => reviewers
    /\ IF dry_run
       THEN /\ gh_ops' = gh_ops
            /\ FixReturn(SuccessResult(branch_name[1], "pull/dry-run"))
       ELSE /\ gh_ops' = gh_ops \o PullOps(outcome, reviewers)
            /\ IF outcome = "created"
               THEN FixReturn(SuccessResult(branch_name[1], "pull/1"))
               ELSE FixReturn(ErrorResult("Failed to create PR"))
    /\ UNCHANGED <<dry_run, fix, branch_name, change_i>>
    /\ FixFrame

FixNext ==
    \/ \E dry \in BOOLEAN, f \in Fixes : ApplyFix(dry, f)
    \/ \E outcome \in BranchOutcomes : CreateBranch(outcome)
    \/ \E outcome \in ChangeOutcomes : ApplyChange(outcome)
    \/ \E outcome \in PullOutcomes, reviewers \in BOOLEAN :
           CreatePullRequest(outcome, reviewers)

(***************************************************************************)
(* Specifications                                                          *)
(***************************************************************************)
InitCov ==
    CovInit /\ CmpIdle /\ ApiIdle /\ BatIdle /\ LdIdle /\ RunIdle /\ RepIdle /\ AiIdle
    /\ ClsIdle /\ FixIdle
SpecCov == InitCov /\ [][CovNext]_vars

\* Runs of the tracker on a state file that is also changed from outside
FileNext ==
    \/ \E t \in Totals : Construct(t)
    \/ \E i \in EntityIds : RecordTest(i, "Entity A")
    \/ Save
    \/ \E kind \in UnloadableKinds : Disturb(kind)
SpecFile == InitCov /\ [][FileNext]_vars

\* The tracker of a run that records tests and asks for the next entities
PriNext ==
    \/ \E i \in EntityIds, n \in EntityNames : RecordTest(i, n)
    \/ \E all \in EntityLists, n \in 0..MaxCount : GetPrioritizedEntities(all, n)

InitPri == InitCov /\ total_entities = Cardinality(EntityIds)

SpecPri == InitPri /\ [][PriNext]_vars

InitCmp ==
    CmpInit /\ CovIdle /\ ApiIdle /\ BatIdle /\ LdIdle /\ RunIdle /\ RepIdle /\ AiIdle
    /\ ClsIdle /\ FixIdle
SpecCmp == InitCmp /\ [][CompareCall]_vars

InitTri ==
    TriInit /\ CovIdle /\ ApiIdle /\ BatIdle /\ LdIdle /\ RunIdle /\ RepIdle /\ AiIdle
    /\ ClsIdle /\ FixIdle
SpecTri == InitTri /\ [][CompareThreeWayCall]_vars

InitAna ==
    AnaInit /\ CovIdle /\ ApiIdle /\ BatIdle /\ LdIdle /\ RunIdle /\ RepIdle /\ AiIdle
    /\ ClsIdle /\ FixIdle
SpecAna == InitAna /\ [][AnalyzeResult]_vars

InitApi ==
    ApiInit /\ CovIdle /\ CmpIdle /\ BatIdle /\ LdIdle /\ RunIdle /\ RepIdle /\ AiIdle
    /\ ClsIdle /\ FixIdle
SpecApi == InitApi /\ [][ApiNext]_vars

InitBat ==
    ApiInit /\ BatIdle /\ CovIdle /\ CmpIdle /\ LdIdle /\ RunIdle /\ RepIdle /\ AiIdle
    /\ ClsIdle /\ FixIdle
SpecBat == InitBat /\ [][BatNext]_vars

InitLd ==
    LdIdle /\ CovIdle /\ CmpIdle /\ ApiIdle /\ BatIdle /\ RunIdle /\ RepIdle /\ AiIdle
    /\ ClsIdle /\ FixIdle
SpecLd == InitLd /\ [][LdNext]_vars

InitRun ==
    RunIdle /\ CovIdle /\ CmpIdle /\ ApiIdle /\ BatIdle /\ LdIdle /\ RepIdle /\ AiIdle
    /\ ClsIdle /\ FixIdle
SpecRun == InitRun /\ [][RunNext]_vars

\* Repeated Nemesis cycles on a fixed entity list, every credential the
\* configuration asks for being set
CycNext ==
    \/ \E cfg \in [compare_impl : BOOLEAN, compare_external : BOOLEAN,
                   has_key : {TRUE}] :
           RunStart(cfg, Cardinality(FetchedIds))
    \/ LoadCoverage
    \/ \E cases \in UNION {[1..n -> FetchedIds] : n \in 1..MaxCases} :
           Generate(cases)
    \/ ExecuteBatchCall
    \/ RunAgain

\* Every cycle runs on to its end and the next one is started
SpecCyc == InitRun /\ [][CycNext]_vars /\ WF_vars(CycNext)

InitRep ==
    RepIdle /\ CovIdle /\ CmpIdle /\ ApiIdle /\ BatIdle /\ LdIdle /\ RunIdle
    /\ AiIdle /\ ClsIdle /\ FixIdle
SpecRep == InitRep /\ [][RepNext]_vars

InitAi ==
    AiIdle /\ CovIdle /\ CmpIdle /\ ApiIdle /\ BatIdle /\ LdIdle /\ RunIdle
    /\ RepIdle /\ ClsIdle /\ FixIdle
SpecAi == InitAi /\ [][AiNext]_vars

InitCls ==
    ClsInit /\ CovIdle /\ CmpIdle /\ ApiIdle /\ BatIdle /\ LdIdle /\ RunIdle
    /\ RepIdle /\ AiIdle /\ FixIdle
SpecCls == InitCls /\ [][ClassifyCall]_vars

InitFix ==
    FixIdle /\ CovIdle /\ CmpIdle /\ ApiIdle /\ BatIdle /\ LdIdle /\ RunIdle
    /\ RepIdle /\ AiIdle /\ ClsIdle
SpecFix == InitFix /\ [][FixNext]_vars

(***************************************************************************)
(* Claims about CoverageTracker (checked under SpecCov)                    *)
(***************************************************************************)

\* C1: every coverage document save() wrote has
\* entities_tested = len(tested_entity_ids).
C1_SavedDocumentCountMatches ==
    file.kind = "json" =>
        file.doc.entities_tested = Len(file.doc.tested_entity_ids)

\* C1 witness: a document with two tested ids has just been saved.
C1_Witness ==
    /\ lastOp = "save"
    /\ file.kind = "json"
    /\ Len(file.doc.tested_entity_ids) = 2

\* C2 as claimed: in every reachable state of the tracker,
\* state['entities_tested'] = len(state['tested_entity_ids']).
C2_CountMatchesInEveryState ==
    state.entities_tested = Len(state.tested_entity_ids)

\* C2 amended: entities_tested equals len(tested_entity_ids) right after
\* construction and right after every save; after a record_test it is never
\* larger, and it is the length the list had at the last save or load.
C2_CountMatchesAfterSave ==
    /\ lastOp \in {"construct", "save"} =>
           state.entities_tested = Len(state.tested_entity_ids)
    /\ state.entities_tested <= Len(state.tested_entity_ids)

\* C2 witness: a save that followed recordings, and a count of 2.
C2_Witness ==
    /\ lastOp = "save"
    /\ recorded # {}
    /\ state.entities_tested = 2

\* C3: coverage_percentage() is 100 * (distinct ids recorded) / T for T > 0,
\* whatever the order and the repetitions of the record_test calls (the ids
\* loaded from the state file count as recorded), and 0 for T = 0.
C3_CoverageIsDistinctOverTotal ==
    CoveragePercentage(state, total_entities) =
        IF total_entities = 0
        THEN <<0, 1>>
        ELSE <<100 * Cardinality(loaded \cup recorded), total_entities>>

\* C3 witness: two distinct ids recorded on a fresh tracker of three
\* entities, one of them twice.
C3_Witness ==
    /\ total_entities = 3
    /\ loaded = {}
    /\ Cardinality(recorded) = 2
    /\ \E i \in DOMAIN state.entity_stats : state.entity_stats[i].test_count = 2

(***************************************************************************)
(* Claims about ResultAnalyzer.compare (checked under SpecCmp)             *)
(***************************************************************************)

\* The id an entry carries, whatever the field that holds it
CarriedId(entity) ==
    LET given == {entity.id, entity.sourceID, entity.uid} \ {NoneId, <<>>}
    IN IF given = {} THEN NoneId ELSE CHOOSE x \in given : TRUE

\* The ids of a result list
IdsOf(results) == {CarriedId(results[i]) : i \in 1..Len(results)} \ {NoneId}

\* The positions of the divergences of a type
OfType(divs, type) == {i \in 1..Len(divs) : divs[i].type = type}

\* No id occurs twice in the list
NoRepeatedId(results) ==
    \A i, j \in 1..Len(results) :
        (CarriedId(results[i]) = CarriedId(results[j])
         /\ CarriedId(results[i]) # NoneId) => i = j

\* C4: for two non-empty lists compare emits exactly one TOP_RESULT_DIFFERS,
\* of severity critical, when the ids of the two first entries differ, and
\* none when they are the same id.
C4_TopResultDiffers ==
    (cmpPc = "done" /\ java_results # <<>> /\ go_results # <<>>) =>
        LET tops == OfType(divergences, "TOP_RESULT_DIFFERS")
        IN IF CarriedId(java_results[1]) # CarriedId(go_results[1])
           THEN /\ Cardinality(tops) = 1
                /\ \A i \in tops : divergences[i].severity = "critical"
           ELSE tops = {}

\* C4 witness: the first entries carry different ids and compare has
\* reported it beside other divergences.
C4_Witness ==
    /\ cmpPc = "done"
    /\ Len(java_results) = 2
    /\ Len(go_results) = 2
    /\ CarriedId(java_results[1]) = <<"1">>
    /\ CarriedId(go_results[1]) = <<"2">>
    /\ Cardinality(OfType(divergences, "TOP_RESULT_DIFFERS")) = 1
    /\ Len(divergences) > 1

\* C5 as claimed: for every id present in both lists (no id repeated), the
\* score difference d is reported as a SCORE_DIFFERENCE of severity critical
\* when d > 0.10 and of severity moderate when 0.05 <= d <= 0.10.
C5_ScoreBands ==
    (/\ cmpPc = "done"
     /\ NoRepeatedId(java_results)
     /\ NoRepeatedId(go_results)) =>
        \A i \in 1..Len(java_results), j \in 1..Len(go_results) :
            (/\ CarriedId(java_results[i]) = CarriedId(go_results[j])
             /\ CarriedId(java_results[i]) # NoneId) =>
                LET d == Abs(GetEntityScore(java_results[i])
                             - GetEntityScore(go_results[j]))
                    reported(sev) ==
                        \E n \in OfType(divergences, "SCORE_DIFFERENCE") :
                            /\ divergences[n].java_data = <<java_results[i]>>
                            /\ divergences[n].go_data = <<go_results[j]>>
                            /\ divergences[n].severity = sev
                IN /\ d > 100 => reported("critical")
                   /\ (50 <= d /\ d <= 100) => reported("moderate")

\* C7: compare reports the differences of membership completely.  Two
\* non-empty lists: exactly one JAVA_EXTRA_RESULT per id only the Java list
\* has, exactly one GO_EXTRA_RESULT per id only the Go list has.  One empty
\* list: one extra-result divergence per entry of the other list and nothing
\* else.  Both empty: nothing.  Every extra-result divergence is moderate.
C7_MembershipDifferences ==
    cmpPc = "done" =>
        LET javaExtra == OfType(divergences, "JAVA_EXTRA_RESULT")
            goExtra == OfType(divergences, "GO_EXTRA_RESULT")
            javaOnly == IdsOf(java_results) \ IdsOf(go_results)
            goOnly == IdsOf(go_results) \ IdsOf(java_results)
        IN /\ \A n \in javaExtra \cup goExtra :
                  divergences[n].severity = "moderate"
           /\ (java_results # <<>> /\ go_results # <<>>) =>
                  /\ \A k \in javaOnly :
                         Cardinality({n \in javaExtra :
                             CarriedId(divergences[n].java_data[1]) = k}) = 1
                  /\ \A k \in goOnly :
                         Cardinality({n \in goExtra :
                             CarriedId(divergences[n].go_data[1]) = k}) = 1
                  /\ Cardinality(javaExtra) = Cardinality(javaOnly)
                  /\ Cardinality(goExtra) = Cardinality(goOnly)
           /\ (java_results = <<>> /\ go_results # <<>>) =>
                  /\ Len(divergences) = Len(go_results)
                  /\ \A n \in 1..Len(divergences) :
                         /\ divergences[n].type = "GO_EXTRA_RESULT"
                         /\ divergences[n].go_data = <<go_results[n]>>
           /\ (java_results # <<>> /\ go_results = <<>>) =>
                  /\ Len(divergences) = Len(java_results)
                  /\ \A n \in 1..Len(divergences) :
                         /\ divergences[n].type = "JAVA_EXTRA_RESULT"
                         /\ divergences[n].java_data = <<java_results[n]>>
           /\ (java_results = <<>> /\ go_results = <<>>) =>
                  divergences = <<>>

\* C7 witness: two non-empty lists, the Java list repeats an id the Go list
\* lacks, and the Go list has an id the Java list lacks.
C7_Witness ==
    /\ cmpPc = "done"
    /\ Len(java_results) = 2
    /\ CarriedId(java_results[1]) = <<"1">>
    /\ CarriedId(java_results[2]) = <<"1">>
    /\ IdsOf(go_results) = {<<"2">>}
    /\ Cardinality(OfType(divergences, "JAVA_EXTRA_RESULT")) = 1
    /\ Cardinality(OfType(divergences, "GO_EXTRA_RESULT")) = 1

\* Same top id, same ids, and no shared id with scores more than 0.02 apart
ListsAgree(java, go) ==
    /\ CarriedId(java[1]) = CarriedId(go[1])
    /\ IdsOf(java) = IdsOf(go)
    /\ \A i \in 1..Len(java), j \in 1..Len(go) :
           CarriedId(java[i]) = CarriedId(go[j]) =>
               Abs(GetEntityScore(java[i]) - GetEntityScore(go[j])) <= 20

\* Every entry carries an id
AllCarryId(results) ==
    \A i \in 1..Len(results) : CarriedId(results[i]) # NoneId

C6_ThreeWayScoreCritical ==
    cmpPc = "done" =>
        \A n \in OfType(divergences, "SCORE_DIFFERENCE") :
            divergences[n].severity = "critical"

(***************************************************************************)
(* Claims about QueryExecutor (checked under SpecApi)                      *)
(***************************************************************************)

\* The positions of the HTTP attempts in what a call did
AttemptsIn(l) == {i \in 1..Len(l) : l[i] # "sleep"}

\* The attempts that were answered with HTTP 200
Answered200 == {"ok_hit", "ok_nokey", "ok_null", "bad_body"}

\* The parts of C9 that do not depend on what ends the call
RetryDiscipline ==
    /\ Cardinality(AttemptsIn(log)) <= args.max_retries
    /\ \A i \in 1..Len(log) :
           log[i] = "sleep" =>
               /\ i > 1
               /\ log[i - 1] # "sleep"
               /\ i < Len(log) => log[i + 1] # "sleep"
               /\ callPc = "ret" => i < Len(log)
    /\ (/\ callPc = "ret"
        /\ Cardinality(AttemptsIn(log)) = args.max_retries
        /\ \A i \in AttemptsIn(log) : ~Returns200(log[i])) =>
           ret = FailureTuple(ErrorMessage(log[Len(log)]))

\* C9 as claimed: with max_retries >= 1, _call_api makes at most max_retries
\* attempts, none after the first attempt answered with HTTP 200, sleeps
\* only between two consecutive attempts and never after the last one, and
\* after max_retries failed attempts returns (None, None, error, None) with
\* the error of the last attempt.
C9_NoAttemptAfterHttp200 ==
    args.max_retries >= 1 =>
        /\ RetryDiscipline
        /\ \A i, j \in AttemptsIn(log) : i < j => log[i] \notin Answered200

\* C9 amended: the same, where the attempt that ends the call is the first
\* one answered with HTTP 200 and a body that parses; an HTTP 200 with a
\* body that does not parse is a failed attempt.
C9_NoAttemptAfterParsed200 ==
    args.max_retries >= 1 =>
        /\ RetryDiscipline
        /\ \A i, j \in AttemptsIn(log) : i < j => ~Returns200(log[i])

\* C9 witness: three attempts, the first an HTTP 200 with an unparseable
\* body, a sleep between them, and the error of the third returned.
C9_Witness ==
    /\ args.max_retries = 3
    /\ callPc = "ret"
    /\ log = <<"bad_body", "sleep", "timeout", "sleep", "http_error">>
    /\ ret = FailureTuple("HTTP 500")

\* Exactly one of the results and the error of a side is None
ExactlyOneNone(results, error) == (results = None) # (error = None)

\* C10 as claimed: execute never raises, and when it has returned, exactly
\* one of results and error is None for each side that was queried.
C10_ExecuteNeverRaises ==
    /\ apiPc # "raised"
    /\ apiPc = "returned" =>
           /\ ExactlyOneNone(result.java_results, result.java_error)
           /\ (args.compare_go /\ go_url) =>
                  ExactlyOneNone(result.go_results, result.go_error)
           /\ WantsExternal =>
                  ExactlyOneNone(result.external_results,
                                 result.external_error)

(***************************************************************************)
(* Claims about QueryExecutor.execute_batch (checked under SpecBat)        *)
(***************************************************************************)

\* C11 as claimed: execute_batch issues the queries in input order, never
\* stops on a failing query, and returns one QueryResult per test case with
\* results[i].query = test_cases[i].query.
C11_BatchOneResultPerCase ==
    /\ batchPc # "raised"
    /\ Len(issued) <= Len(test_cases)
    /\ \A i \in 1..Len(issued) : issued[i] = test_cases[i]
    /\ batchPc = "returned" =>
           /\ issued = test_cases
           /\ Len(batch_results) = Len(test_cases)
           /\ \A i \in 1..Len(test_cases) :
                  batch_results[i].query = test_cases[i]

(***************************************************************************)
(* Claims about WatchmanLoadTester (checked under SpecLd)                  *)
(***************************************************************************)

\* How often a request is accounted in latencies
TimesAccounted(r) == Cardinality({i \in 1..Len(latencies) : latencies[i] = r})

\* The sum of the counts of the dict errors
RECURSIVE SumOver(_, _)
SumOver(f, keys) ==
    IF keys = {} THEN 0
    ELSE LET k == CHOOSE x \in keys : TRUE
         IN f[k] + SumOver(f, keys \ {k})

\* The counters of the search load test are consistent
SearchAccounting ==
    /\ \A r \in Requests : TimesAccounted(r) <= 1
    /\ Len(latencies) = successful + failed
    /\ SumOver(errors, ErrorKeys) = failed
    /\ (ldPc = "returned" /\ concurrent_users > 0) =>
           /\ total_requests = query_index
           /\ total_requests = Len(latencies)
           /\ total_requests = successful + failed
           /\ \A r \in 1..query_index : TimesAccounted(r) = 1

\* C12: in test_search_endpoint a step of the pool (a future changes) leaves
\* latencies, successful, failed and errors alone; every submitted request
\* is accounted at most once, and on return exactly once, so that
\* total_requests = submitted = len(latencies) = successful + failed and the
\* counts of error_details sum to failed.
C12_CountersByCallingThread ==
    /\ []SearchAccounting
    /\ [][fut' # fut =>
             UNCHANGED <<latencies, successful, failed, errors>>]_vars

\* C12 witness: three requests submitted by two users, some accounted in
\* the polling loop and some in the final drain, successes and failures.
C12_Witness ==
    /\ ldPc = "returned"
    /\ concurrent_users = 2
    /\ query_index = 3
    /\ Len(futures) \in {1, 2}
    /\ successful >= 1
    /\ failed >= 1
    /\ total_requests = 3

\* The requests accounted whose attempt failed
FailedRequests ==
    {r \in Requests : TimesAccounted(r) >= 1 /\ attempts[r] # <<>>
                      /\ attempts[r][Len(attempts[r])] # "ok"}

\* C13 as claimed: a load-test request that fails is retried before it is
\* counted as failed: a request counted as failed has made several attempts.
C13_FailedAfterRetries ==
    \A r \in FailedRequests : Len(attempts[r]) > 1

\* C13 amended: a load-test request makes one attempt; when that attempt
\* fails (timeout, exception, status other than 200) the request is counted
\* as one failed request, under the message of that attempt.
C13_FailedAfterOneAttempt ==
    /\ \A r \in Requests : Len(attempts[r]) <= 1
    /\ \A r \in Requests : TimesAccounted(r) >= 1 => Len(attempts[r]) = 1
    /\ failed = Cardinality(FailedRequests)
    /\ errors["HTTP 500"] =
           Cardinality({r \in FailedRequests : attempts[r] = <<"http_error">>})
    /\ errors["Timeout"] =
           Cardinality({r \in FailedRequests : attempts[r] = <<"timeout">>})
    /\ errors["Connection refused"] =
           Cardinality({r \in FailedRequests : attempts[r] = <<"exc">>})

\* C13 witness: a batch load test of two requests, one timed out and one
\* answered with a status other than 200, both counted as failed.
C13_Witness ==
    /\ ldPc = "returned"
    /\ num_requests = 2
    /\ attempts[1] = <<"timeout">>
    /\ attempts[2] = <<"http_error">>
    /\ failed = 2
    /\ errors["Timeout"] = 1

(***************************************************************************)
(* Claims about run_nemesis.main (checked under SpecRun)                   *)
(***************************************************************************)

\* The positions of a step in the lifecycle taken
StepsOf(step) == {i \in 1..Len(run_log) : run_log[i] = step}

\* main is over: it returned or it raised
RunOver == runPc \in {"exit1", "raised", "returned"}

\* C14 as claimed: a run that fetched at least one entity loads the coverage
\* state once before the queries are generated, executes the batch, applies
\* record_test for every test case, and saves exactly once, after the last
\* record_test and before the report is written.
C14_CoverageLifecycle ==
    (RunOver /\ entities > 0) =>
        /\ Cardinality(StepsOf("load")) = 1
        /\ Cardinality(StepsOf("execute")) = 1
        /\ Cardinality(StepsOf("record")) = Len(run_cases)
        /\ Cardinality(StepsOf("save")) = 1
        /\ Cardinality(StepsOf("report")) = 1
        /\ \A l \in StepsOf("load"), g \in StepsOf("generate") : l < g
        /\ \A g \in StepsOf("generate"), e \in StepsOf("execute") : g < e
        /\ \A e \in StepsOf("execute"), r \in StepsOf("record") : e < r
        /\ \A r \in StepsOf("record"), v \in StepsOf("save") : r < v
        /\ \A v \in StepsOf("save"), w \in StepsOf("report") : v < w

(***************************************************************************)
(* Claims about run_repair_pipeline.py (checked under SpecRep)             *)
(***************************************************************************)

\* The conditions that stop the pipeline and are fatal
FatalConditions ==
    {"missing_credential", "unreadable_report", "stage_failed", "no_artifact"}

\* run_nemesis.run_repair_pipeline, lines 111-112: the failure is detected
Detected == exit_status # 0

\* C15 as claimed: when a fatal condition (a missing credential, a report
\* that cannot be read, a failed stage command, a stage without artifact)
\* stops the pipeline, the process exits with a non-zero status, which the
\* returncode check of run_nemesis detects.
C15_FatalExitsNonZero ==
    (repPc = "exited" /\ stopped_by \in FatalConditions) => Detected

(***************************************************************************)
(* Claims about the AI report scripts (checked under SpecAi)               *)
(***************************************************************************)

\* The response is malformed: it is not JSON or, for run-nemesis.py, it is
\* JSON without the field "issues"
Malformed ==
    \/ ~Parses(ExtractJson(ai_response))
    \/ ai_script = "nemesis" /\ ExtractJson(ai_response) # "object"

\* C16 as claimed: on a malformed AI response parse_and_save_results writes
\* the raw text to the _raw.txt file, writes no report, raises nothing and
\* returns None, and main returns 1.
C16_MalformedSavedAsRaw ==
    (aiPc # "idle" /\ Malformed) =>
        /\ aiPc \notin {"raised", "crashed"}
        /\ raw_written
        /\ ~report_written
        /\ parse_ret = "None"
        /\ aiPc = "returned" => main_ret = 1

(***************************************************************************)
(* Claims about get_prioritized_entities (checked under SpecPri)           *)
(***************************************************************************)
\* The entity is one of the list returned
Returned(e) == InSeq(e, prioritized)

\* What get_prioritized_entities returned, against its arguments and the
\* tracker it was called on
PrioritizedAsSpecified ==
    LET n == Len(prioritized)
        all == SeqToSet(all_entities)
        tested(e) == WasTested(state, e.id)
        last(e) == state.entity_stats[e.id].last_tested
    IN /\ n = (IF count < Len(all_entities) THEN count ELSE Len(all_entities))
       /\ \A i \in 1..n : prioritized[i] \in all
       /\ \A i, j \in 1..n : prioritized[i] = prioritized[j] => i = j
       /\ (\E i \in 1..n : tested(prioritized[i])) =>
              \A e \in all : ~tested(e) => Returned(e)
       /\ \A i \in 1..n : tested(prioritized[i]) =>
              \A e \in all : (tested(e) /\ ~Returned(e)) =>
                  last(prioritized[i]) <= last(e)
       /\ \A i, j \in 1..n : (i < j /\ tested(prioritized[i])) =>
              /\ tested(prioritized[j])
              /\ last(prioritized[i]) <= last(prioritized[j])

\* C17: for all_entities with unique ids and count >= 0,
\* get_prioritized_entities returns min(count, len(all_entities)) distinct
\* entities of the list; a tested entity is returned only if every untested
\* one is; the tested ones returned have the oldest last_tested, and stand in
\* ascending last_tested order after all untested ones; the call leaves the
\* tracker state as it was.
C17_PrioritizedUntestedThenOldest ==
    /\ [](lastOp = "get_prioritized_entities" => PrioritizedAsSpecified)
    /\ [][lastOp' = "get_prioritized_entities" =>
             UNCHANGED <<state, total_entities, file>>]_vars

\* C17 witness: of three entities, one untested and two tested at different
\* times, two were asked for: the untested one and the older tested one came
\* back, the tested one asked about last in the list.
C17_Witness ==
    /\ lastOp = "get_prioritized_entities"
    /\ Len(all_entities) = 3
    /\ count = 2
    /\ Len(prioritized) = 2
    /\ ~WasTested(state, prioritized[1].id)
    /\ WasTested(state, prioritized[2].id)
    /\ prioritized[2] = all_entities[3]
    /\ WasTested(state, all_entities[2].id)
    /\ ~WasTested(state, all_entities[1].id)

(***************************************************************************)
(* Claims about record_test, save and the state file (checked under        *)
(* SpecCov)                                                                *)
(***************************************************************************)
\* C18: on a tracker that started with nothing tested, after any sequence of
\* record_test calls tested_entity_ids holds each recorded id exactly once,
\* the keys of entity_stats are the recorded ids, test_count is the number of
\* calls made for the id, and entity_name and first_tested are those of the
\* first call for the id.
C18_StatsCountEveryCall ==
    loaded = {} =>
        LET ids == state.tested_entity_ids
            stats == state.entity_stats
        IN /\ SeqToSet(ids) = recorded
           /\ \A i, j \in 1..Len(ids) : ids[i] = ids[j] => i = j
           /\ DOMAIN stats = recorded
           /\ DOMAIN calls = recorded
           /\ \A id \in recorded :
                  /\ stats[id].test_count = calls[id].test_count
                  /\ stats[id].entity_name = calls[id].entity_name
                  /\ stats[id].first_tested = calls[id].first_tested

\* C18 witness: on such a tracker two ids were recorded, one of them three
\* times, the last time well after the first.
C18_Witness ==
    /\ loaded = {}
    /\ lastOp = "record_test"
    /\ Cardinality(recorded) = 2
    /\ \E id \in recorded :
           /\ calls[id].test_count = 3
           /\ state.entity_stats[id].first_tested + 2 < state.entity_stats[id].last_tested

C20_PersistedTotalIsWriters ==
    lastOp = "save" =>
        /\ file.doc.total_ofac_entities = total_entities
        /\ Len(state.tested_entity_ids) <= total_entities =>
               Len(file.doc.tested_entity_ids) <= file.doc.total_ofac_entities

(***************************************************************************)
(* Claims about repeated Nemesis cycles (checked under SpecCyc)            *)
(***************************************************************************)
\* C21: over repeated cycles on a fixed list of entities, each cycle drawing
\* at least one test case from the prioritized entities, eventually every
\* entity is in tested_entity_ids of the coverage file and of the tracker,
\* and stays there.
C21_EventuallyAllTested ==
    <>[](\A id \in FetchedIds :
            /\ WasTested(file.doc, id)
            /\ WasTested(state, id))

(***************************************************************************)
(* Claims about the report of a Nemesis run (checked under SpecRun)        *)
(***************************************************************************)
\* C22: when a run that got as far as executing its queries is over and
\* found no divergences, the report file on disk has repair_results.enabled
\* false, repair_results.reason 'No divergences to repair' and
\* repair_results.prs_created empty.  (No run of the model finds a
\* divergence: none gets past the call of execute_batch.)
C22_NoDivergencesReport ==
    runPc \in {"raised", "returned"} =>
        /\ output_file.exists
        /\ ~output_file.enabled
        /\ output_file.reason = "No divergences to repair"
        /\ output_file.prs_created = <<>>

(***************************************************************************)
(* Claims about the stages of run_repair_pipeline.py (checked under        *)
(* SpecRep)                                                                *)
(***************************************************************************)
\* The stages in the order of the module docstring
StageOrder == <<"classify", "analyze", "generate", "apply">>

\* The stage was started
Started(stage) == \E i \in 1..Len(started) : started[i].stage = stage

\* C23: the stages are started in the order classify, analyze code, generate
\* fixes, create PRs; a stage is started only after every earlier one returned
\* success and a file of the preceding stage's artifact kind exists; fix
\* generation only with ANTHROPIC_API_KEY set, PR creation only with
\* GITHUB_TOKEN set as well; none when the latest report is missing, cannot
\* be read or has no divergences.
C23_StagesInOrder ==
    /\ Len(started) <= Len(StageOrder)
    /\ \A i \in 1..Len(started) : started[i].stage = StageOrder[i]
    /\ \A i \in 2..Len(started) :
           /\ started[i - 1].outcome = "ok"
           /\ started[i].input # "none"
    /\ Started("generate") => rep_env.anthropic
    /\ Started("apply") => rep_env.anthropic /\ rep_env.github
    /\ (repPc # "idle" /\ divergence_count = 0) => started = <<>>
    /\ stopped_by \in {"no_report", "unreadable_report", "no_divergences"} =>
           started = <<>>

\* C23 witness: all four stages ran and the process is over.
C23_Witness ==
    /\ repPc = "exited"
    /\ Len(started) = 4
    /\ \A i \in 1..4 : started[i].outcome = "ok"
    /\ rep_env.anthropic /\ rep_env.github

\* C28: every stage is given the artifact that the stage before it wrote in
\* this pipeline run, and the pull requests reported for the run are read
\* from a pr-results file this run wrote (or from none): a file an earlier
\* run left in the reports directory is never used.
C28_OnlyArtifactsOfThisRun ==
    /\ \A i \in 2..Len(started) : started[i].input = "this"
    /\ (repPc = "exited" /\ exit_status = 0) =>
           PrResultsLoaded(reports_dir) # "earlier"

(***************************************************************************)
(* More claims about compare_three_way (checked under SpecTri)             *)
(***************************************************************************)
\* The prefix-normalized id of the top entry of a result list, None for an
\* empty list
TopId(results) ==
    NormalizeId(IF results # <<>> THEN GetEntityId(results[1]) ELSE NoneId)

\* C24: compare_three_way returns at most one divergence; it is TWO_VS_ONE
\* exactly when two of the three normalized top ids are equal and the third
\* differs (moderate when the external provider is the odd one out, critical
\* when Java or Go is, agreement_pattern naming the odd one), and
\* THREE_WAY_SPLIT exactly when the three top ids are pairwise different.
C24_TypeFollowsAgreement ==
    cmpPc = "done" =>
        LET j == TopId(java_results)
            g == TopId(go_results)
            e == TopId(external_results)
            has(type) == OfType(divergences, type) # {}
            is(severity, pattern) ==
                /\ Len(divergences) = 1
                /\ divergences[1].type = "TWO_VS_ONE"
                /\ divergences[1].severity = severity
                /\ divergences[1].agreement_pattern = pattern
        IN /\ Len(divergences) <= 1
           /\ has("TWO_VS_ONE") <=>
                  \/ j = g /\ g # e
                  \/ j = e /\ e # g
                  \/ g = e /\ e # j
           /\ (j = g /\ g # e) => is("moderate", "java+go vs external")
           /\ (j = e /\ e # g) => is("critical", "java+external vs go")
           /\ (g = e /\ e # j) => is("critical", "go+external vs java")
           /\ has("THREE_WAY_SPLIT") <=> (j # g /\ g # e /\ j # e)

(***************************************************************************)
(* Claims about IssueClassifier.classify (checked under SpecCls)           *)
(***************************************************************************)
\* C25: classify returns 'auto-fix' (auto_fix_eligible true, reasons the one
\* entry 'Meets all auto-fix criteria') exactly when pattern_confidence >=
\* 0.90, files_affected <= 3, test_coverage >= 0.70, no risk keyword is in
\* the category, consistency_score >= 0.85 and there is at most one root
\* cause; 'too-complex' exactly when there is more than one root cause or
\* pattern_confidence < 0.80; 'human-review' in every other case; reasons
\* is never empty.
C25_ClassificationByCriteria ==
    clsPc = "done" =>
        LET meets == /\ issue.pattern_confidence >= 90
                     /\ issue.files_affected <= 3
                     /\ issue.test_coverage >= 70
                     /\ ~issue.risky
                     /\ issue.consistency_score >= 85
                     /\ issue.root_causes <= 1
            complex == issue.root_causes > 1 \/ issue.pattern_confidence < 80
        IN /\ classified.classification = "auto-fix" <=> meets
           /\ classified.auto_fix_eligible <=> meets
           /\ meets => classified.reasons = <<"Meets all auto-fix criteria">>
           /\ classified.classification = "too-complex" <=> complex
           /\ (~meets /\ ~complex) => classified.classification = "human-review"
           /\ classified.reasons # <<>>

\* C25 witness: an issue of confidence 0.80 and one root cause that fails
\* the confidence and the coverage criterion came back as human-review.
C25_Witness ==
    /\ clsPc = "done"
    /\ issue.pattern_confidence = 80
    /\ issue.root_causes = 1
    /\ classified.classification = "human-review"
    /\ Len(classified.reasons) = 2

\* The calls of the named methods among the calls made so far
OpsOf(names) == SelectSeq(gh_ops, LAMBDA o : o.op \in names)

\* The calls of the named methods that succeeded
DoneOps(names) == SelectSeq(gh_ops, LAMBDA o : o.op \in names /\ o.ok)

FileOps == {"update_file", "create_file"}

PullRequestOps == {"create_pull", "add_to_labels", "create_review_request"}

\* C26: apply_fix goes through validation, branch creation, the changes
\* and the pull request in this order and stops at the first stage that
\* fails: no branch is created for a fix that is invalid or has no
\* changes, no file is changed unless the branch was created, no pull
\* request is created unless every change was applied, and 'success' with
\* a branch and a pr_url is returned only if all four stages succeeded.
C26_StagesStopAtFirstFailure ==
    /\ OpsOf({"create_git_ref"}) # <<>> => fix.valid /\ fix.changes > 0
    /\ OpsOf(FileOps) # <<>> =>
           /\ DoneOps({"create_git_ref"}) # <<>>
           /\ gh_ops[1] = Op("create_git_ref", TRUE)
    /\ OpsOf(PullRequestOps) # <<>> =>
           /\ Len(DoneOps(FileOps)) = fix.changes
           /\ fix.changes > 0
           /\ Len(OpsOf({"create_pull"})) = 1
    /\ fixPc = "returned" =>
           /\ fix_result.error = "Fix validation failed" => gh_ops = <<>>
           /\ fix_result.error = "Failed to create branch" =>
                  OpsOf(FileOps \cup PullRequestOps) = <<>>
           /\ fix_result.error = "Failed to apply changes" =>
                  OpsOf(PullRequestOps) = <<>>
           /\ fix_result.status = "success" <=> fix_result.error = ""
           /\ fix_result.status = "success" =>
                  /\ fix.valid /\ fix.changes > 0
                  /\ branch_name # None
                  /\ fix_result.branch = branch_name
                  /\ fix_result.pr_url # None
                  /\ change_i = fix.changes
                  /\ ~dry_run =>
                         /\ DoneOps({"create_git_ref"}) # <<>>
                         /\ Len(DoneOps(FileOps)) = fix.changes
                         /\ DoneOps({"create_pull"}) # <<>>
                         /\ \A i \in 1..Len(gh_ops) :
                                gh_ops[i].op \in PullRequestOps => gh_ops[i].ok

\* C26 witness: a live run in which the second change failed after the
\* first was applied, so that apply_fix returned without a pull request.
C26_Witness ==
    /\ fixPc = "returned"
    /\ ~dry_run
    /\ fix_result.error = "Failed to apply changes"
    /\ Len(DoneOps(FileOps)) = 1
    /\ fix.changes > 1

\* C27: in dry-run mode apply_fix calls none of create_git_ref,
\* update_file, create_file, create_pull, add_to_labels and
\* create_review_request.
C27_DryRunCallsNothing ==
    dry_run => gh_ops = <<>>

\* C27 witness: a dry run went through all four stages and returned
\* 'success'.
C27_Witness ==
    /\ dry_run
    /\ fixPc = "returned"
    /\ fix_result.status = "success"
    /\ fix_result.pr_url = <<"pull/dry-run">>

C30_ConstructNeverRaises ==
    /\ lastOp # "construct_raised"
    /\ lastOp = "construct" =>
           /\ state = NewState(total_entities) <=> file.kind \in UnloadableKinds
           /\ file.kind = "json" => state = file.doc

\* What holds of a constructor that returned: the start state is the new
\* empty state exactly for an unloadable file, the content of the file
\* otherwise.
StartStateOfReturnedConstructor ==
    lastOp = "construct" =>
        /\ state = NewState(total_entities) <=> file.kind \in UnloadableKinds
        /\ file.kind = "json" => state = file.doc

\* The constructor leaves the state file as it is.
ConstructLeavesFile ==
    [][lastOp' \in {"construct", "construct_raised"} => file' = file]_vars
====
